---- MODULE Spec2Model ----
(***************************************************************************)
(* Financial AI Agent System: the error-classification layer               *)
(* (error_handler.py), the log redaction filter (logger.py), the           *)
(* configuration loader (config.py) and the CLI entry point                *)
(* (financial_agent.py), the playground module (playground.py) and the     *)
(* end-to-end validator (test_end_to_end.py), as state machines.  The      *)
(* playground and the validator are processes of their own and use the     *)
(* process variables pc, env, constructed and exit_status of the CLI.       *)
(*                                                                         *)
(* Python strings are sequences of one-character strings, so that lower(), *)
(* the `in` substring test, concatenation and re.sub are computed on the   *)
(* characters.  A Python value that may be None is <<>> for None and <<v>>  *)
(* for the value v.                                                        *)
(***************************************************************************)
EXTENDS Integers, Sequences, FiniteSets, TLC

VARIABLES
    err_text,     \* error_handler: str(error) of the exception being handled
    call,         \* error_handler: the last call, with its arguments
    result,       \* error_handler: what that call returned
    log_text,     \* logger: the text handed to the logging call
    record,       \* logger: the LogRecord after the handler's filter ran
    emitted,      \* logger: the text the handler wrote for that record
    argv,         \* CLI: the parsed command line [query, agent]
    pc,           \* CLI: position of the process
    constructed,  \* CLI: agent objects constructed so far, in order
    env,          \* CLI: the .env file and os.environ [file, environ]
    config,       \* CLI: <<>> until load_config was called, then <<outcome>>
    run_calls,    \* CLI: every agent.run invocation [agent, query, outcome]
    exec_log,     \* CLI: every execute_query call [query, agent_type, returned]
    stdout,       \* CLI: the marker lines printed so far
    exit_status,  \* CLI: <<>> while running, <<n>> once the process exited
    module_name,  \* playground: __name__ of the module ("__main__" as a script)
    app,          \* playground: <<>> until the Playground app is created
    served,       \* playground: serve_playground_app was called
    startup_error, \* playground: the exception that ended the module body
    prereq,       \* validator: what check_prerequisites finds on disk
    results,      \* validator: self.results, one [test_name, passed] per test
    run_returned  \* validator: <<>> until run returned, then <<value>>

err_vars == <<err_text, call, result>>
log_vars == <<log_text, record, emitted>>
cli_vars ==
    <<argv, pc, constructed, env, config, run_calls, exec_log, stdout, exit_status>>
play_vars == <<module_name, app, served, startup_error>>
e2e_vars == <<prereq, results, run_returned>>
vars == <<err_vars, log_vars, cli_vars, play_vars, e2e_vars>>

---------------------------------------------------------------------------
(* Python values *)

None == <<>>
Some(v) == <<v>>
IsNone(o) == o = <<>>
ValueOf(o) == o[1]

EmptyDict == [k \in {} |-> <<>>]

\* bool(d) of a dict: a dict is falsy exactly when it is empty
DictTruthy(d) == DOMAIN d # {}

---------------------------------------------------------------------------
(* str methods *)

UpperLetters ==
    <<"A","B","C","D","E","F","G","H","I","J","K","L","M","N","O","P","Q","R","S","T","U","V","W","X","Y","Z">>
LowerLetters ==
    <<"a","b","c","d","e","f","g","h","i","j","k","l","m","n","o","p","q","r","s","t","u","v","w","x","y","z">>
Digits == {"0","1","2","3","4","5","6","7","8","9"}

UpperSet == {UpperLetters[i] : i \in 1..26}
LowerSet == {LowerLetters[i] : i \in 1..26}
AlnumChars == UpperSet \cup LowerSet \cup Digits
KeyChars == AlnumChars \cup {"_", "-"}

LowerMap ==
    [c \in UpperSet |-> LowerLetters[CHOOSE i \in 1..26 : UpperLetters[i] = c]]

LowerChar(c) == IF c \in UpperSet THEN LowerMap[c] ELSE c

\* str.lower()
Lower(s) == [i \in 1..Len(s) |-> LowerChar(s[i])]

\* `kw in s` for strings: kw occurs in s as a contiguous substring
Contains(s, kw) ==
    \E i \in 1..(Len(s) - Len(kw) + 1) :
        \A k \in 1..Len(kw) : s[i + k - 1] = kw[k]

\* str.isspace() of one character (the ASCII whitespace the inputs use)
IsSpace(c) == c \in {" ", "\t", "\n"}

\* s.strip() == ''
StripIsEmpty(s) == \A i \in 1..Len(s) : IsSpace(s[i])

\* what a call did: returned a value, or raised an exception
Return(value) == [kind |-> "return", value |-> value]
Raise(error) == [kind |-> "raise", error |-> error]

RECURSIVE Concat(_)
Concat(parts) ==
    IF parts = <<>> THEN <<>> ELSE Head(parts) \o Concat(Tail(parts))

\* all sequences of at most n elements of S
RECURSIVE SeqsUpTo(_, _)
SeqsUpTo(S, n) ==
    IF n = 0 THEN {<<>>}
    ELSE LET shorter == SeqsUpTo(S, n - 1)
         IN  shorter \cup {Append(q, x) : q \in shorter, x \in S}

---------------------------------------------------------------------------
(* error_handler.py: taxonomy and exception classes *)

\* ErrorType members and their .value
ErrorType ==
    {"CONFIGURATION_ERROR", "AGENT_EXECUTION_ERROR", "API_ERROR",
     "VALIDATION_ERROR", "NETWORK_ERROR", "UNKNOWN_ERROR"}

ErrorTypeValue(t) ==
    CASE t = "CONFIGURATION_ERROR"   -> "configuration_error"
      [] t = "AGENT_EXECUTION_ERROR" -> "agent_execution_error"
      [] t = "API_ERROR"             -> "api_error"
      [] t = "VALIDATION_ERROR"      -> "validation_error"
      [] t = "NETWORK_ERROR"         -> "network_error"
      [] t = "UNKNOWN_ERROR"         -> "unknown_error"

TaxonomyValues == {ErrorTypeValue(t) : t \in ErrorType}

\* the five subclasses and the error type each passes to the base constructor
Subclasses ==
    {"ConfigurationError", "AgentExecutionError", "APIError",
     "ValidationError", "NetworkError"}

SubclassErrorType(cls) ==
    CASE cls = "ConfigurationError"  -> "CONFIGURATION_ERROR"
      [] cls = "AgentExecutionError" -> "AGENT_EXECUTION_ERROR"
      [] cls = "APIError"            -> "API_ERROR"
      [] cls = "ValidationError"     -> "VALIDATION_ERROR"
      [] cls = "NetworkError"        -> "NETWORK_ERROR"

\* exception classes raised by the libraries underneath, and their base class
\* (IOError is an alias of OSError; FileNotFoundError, ConnectionError and
\* TimeoutError are subclasses of OSError)
BuiltinClasses ==
    {"Exception", "ValueError", "OSError", "FileNotFoundError",
     "ConnectionError", "TimeoutError", "RuntimeError"}

BaseOf(cls) ==
    CASE cls \in {"ValueError", "OSError", "RuntimeError", "FinancialAgentError"}
             -> "Exception"
      [] cls \in {"FileNotFoundError", "ConnectionError", "TimeoutError"}
             -> "OSError"
      [] cls \in Subclasses -> "FinancialAgentError"
      [] OTHER -> "BaseException"

\* isinstance(error, target) for an error of class cls
RECURSIVE IsInstance(_, _)
IsInstance(cls, target) ==
    \/ cls = target
    \/ cls # "BaseException" /\ IsInstance(BaseOf(cls), target)

\* variant: the details argument is stored as given
DetailsOrEmpty_as_given(details) == details

\* `details or {}`
DetailsOrEmpty(details) ==
    IF IsNone(details) \/ ~DictTruthy(ValueOf(details))
    THEN Some(EmptyDict) ELSE details

\* FinancialAgentError.__init__: an exception object of class cls
FinancialAgentError(cls, message, error_type, details) ==
    [cls |-> cls, message |-> message, error_type |-> error_type,
     details |-> DetailsOrEmpty(details)]

ConfigurationError(message, details) ==
    FinancialAgentError("ConfigurationError", message, "CONFIGURATION_ERROR", details)

AgentExecutionError(message, details) ==
    FinancialAgentError("AgentExecutionError", message, "AGENT_EXECUTION_ERROR", details)

APIError(message, details) ==
    FinancialAgentError("APIError", message, "API_ERROR", details)

ValidationError(message, details) ==
    FinancialAgentError("ValidationError", message, "VALIDATION_ERROR", details)

NetworkError(message, details) ==
    FinancialAgentError("NetworkError", message, "NETWORK_ERROR", details)

\* the constructor of class cls; only the base class takes the error type
Construct(cls, message, error_type, details) ==
    CASE cls = "FinancialAgentError" -> FinancialAgentError(cls, message, error_type, details)
      [] cls = "ConfigurationError"  -> ConfigurationError(message, details)
      [] cls = "AgentExecutionError" -> AgentExecutionError(message, details)
      [] cls = "APIError"            -> APIError(message, details)
      [] cls = "ValidationError"     -> ValidationError(message, details)
      [] cls = "NetworkError"        -> NetworkError(message, details)

\* FinancialAgentError.to_dict
to_dict(self) ==
    [error |-> self.message,
     error_type |-> ErrorTypeValue(self.error_type),
     details |-> self.details]

\* an exception of a library class: str(error) is its text
BuiltinError(cls, text) == [cls |-> cls, message |-> text]

\* str(error)
Str(error) == error.message

---------------------------------------------------------------------------
(* error_handler.py: message texts *)

\* MSG_400 = 'Invalid request format. Please check your query and try again.'
MSG_400 ==
    <<"I","n","v","a","l","i","d"," ","r","e","q","u","e","s","t"," ","f","o","r","m","a","t","."," ","P","l","e","a","s","e"," ","c","h","e","c","k"," ","y","o","u","r"," ","q","u","e","r","y"," ","a","n","d"," ","t","r","y"," ","a","g","a","i","n",".">>
\* MSG_401 = 'Authentication failed. Please check your API keys.'
MSG_401 ==
    <<"A","u","t","h","e","n","t","i","c","a","t","i","o","n"," ","f","a","i","l","e","d","."," ","P","l","e","a","s","e"," ","c","h","e","c","k"," ","y","o","u","r"," ","A","P","I"," ","k","e","y","s",".">>
\* MSG_403 = 'Access forbidden. Please verify your API key permissions.'
MSG_403 ==
    <<"A","c","c","e","s","s"," ","f","o","r","b","i","d","d","e","n","."," ","P","l","e","a","s","e"," ","v","e","r","i","f","y"," ","y","o","u","r"," ","A","P","I"," ","k","e","y"," ","p","e","r","m","i","s","s","i","o","n","s",".">>
\* MSG_404 = 'Resource not found. Please check your request.'
MSG_404 ==
    <<"R","e","s","o","u","r","c","e"," ","n","o","t"," ","f","o","u","n","d","."," ","P","l","e","a","s","e"," ","c","h","e","c","k"," ","y","o","u","r"," ","r","e","q","u","e","s","t",".">>
\* MSG_429 = 'Rate limit exceeded. Please wait and try again.'
MSG_429 ==
    <<"R","a","t","e"," ","l","i","m","i","t"," ","e","x","c","e","e","d","e","d","."," ","P","l","e","a","s","e"," ","w","a","i","t"," ","a","n","d"," ","t","r","y"," ","a","g","a","i","n",".">>
\* MSG_500 = 'Internal server error. Please try again later.'
MSG_500 ==
    <<"I","n","t","e","r","n","a","l"," ","s","e","r","v","e","r"," ","e","r","r","o","r","."," ","P","l","e","a","s","e"," ","t","r","y"," ","a","g","a","i","n"," ","l","a","t","e","r",".">>
\* MSG_503 = 'Service temporarily unavailable. Please try again later.'
MSG_503 ==
    <<"S","e","r","v","i","c","e"," ","t","e","m","p","o","r","a","r","i","l","y"," ","u","n","a","v","a","i","l","a","b","l","e","."," ","P","l","e","a","s","e"," ","t","r","y"," ","a","g","a","i","n"," ","l","a","t","e","r",".">>
\* MSG_API_PREFIX = 'API error occurred: '
MSG_API_PREFIX ==
    <<"A","P","I"," ","e","r","r","o","r"," ","o","c","c","u","r","r","e","d",":"," ">>
\* MSG_INVALID_TICKER = 'Invalid ticker symbol. Please verify the ticker symbol and try again. Ensure the ticker is spelled correctly and the company is publicly traded.'
MSG_INVALID_TICKER ==
    <<"I","n","v","a","l","i","d"," ","t","i","c","k","e","r"," ","s","y","m","b","o","l","."," ","P","l","e","a","s","e"," ","v","e","r","i","f","y"," ","t","h","e"," ","t","i","c","k","e","r"," ","s","y","m","b","o","l"," ","a","n","d"," ","t","r","y"," ","a","g","a","i","n","."," ","E","n","s","u","r","e"," ","t","h","e"," ","t","i","c","k","e","r"," ","i","s"," ","s","p","e","l","l","e","d"," ","c","o","r","r","e","c","t","l","y"," ","a","n","d"," ","t","h","e"," ","c","o","m","p","a","n","y"," ","i","s"," ","p","u","b","l","i","c","l","y"," ","t","r","a","d","e","d",".">>
\* MSG_RATE_LIMIT = 'API rate limit exceeded. Please wait a moment and try again. If the issue persists, consider reducing query frequency.'
MSG_RATE_LIMIT ==
    <<"A","P","I"," ","r","a","t","e"," ","l","i","m","i","t"," ","e","x","c","e","e","d","e","d","."," ","P","l","e","a","s","e"," ","w","a","i","t"," ","a"," ","m","o","m","e","n","t"," ","a","n","d"," ","t","r","y"," ","a","g","a","i","n","."," ","I","f"," ","t","h","e"," ","i","s","s","u","e"," ","p","e","r","s","i","s","t","s",","," ","c","o","n","s","i","d","e","r"," ","r","e","d","u","c","i","n","g"," ","q","u","e","r","y"," ","f","r","e","q","u","e","n","c","y",".">>
\* MSG_NETWORK = 'Network error occurred while processing your request. Please check your internet connection and try again.'
MSG_NETWORK ==
    <<"N","e","t","w","o","r","k"," ","e","r","r","o","r"," ","o","c","c","u","r","r","e","d"," ","w","h","i","l","e"," ","p","r","o","c","e","s","s","i","n","g"," ","y","o","u","r"," ","r","e","q","u","e","s","t","."," ","P","l","e","a","s","e"," ","c","h","e","c","k"," ","y","o","u","r"," ","i","n","t","e","r","n","e","t"," ","c","o","n","n","e","c","t","i","o","n"," ","a","n","d"," ","t","r","y"," ","a","g","a","i","n",".">>
\* MSG_EXEC_FAILED = ' execution failed: '
MSG_EXEC_FAILED ==
    <<" ","e","x","e","c","u","t","i","o","n"," ","f","a","i","l","e","d",":"," ">>
\* MSG_CONFIG_NOT_FOUND = 'Configuration file not found. Please create a .env file with required API keys. Use .env.example as a template.'
MSG_CONFIG_NOT_FOUND ==
    <<"C","o","n","f","i","g","u","r","a","t","i","o","n"," ","f","i","l","e"," ","n","o","t"," ","f","o","u","n","d","."," ","P","l","e","a","s","e"," ","c","r","e","a","t","e"," ","a"," ",".","e","n","v"," ","f","i","l","e"," ","w","i","t","h"," ","r","e","q","u","i","r","e","d"," ","A","P","I"," ","k","e","y","s","."," ","U","s","e"," ",".","e","n","v",".","e","x","a","m","p","l","e"," ","a","s"," ","a"," ","t","e","m","p","l","a","t","e",".">>
\* MSG_CONFIG_PREFIX = 'Configuration error: '
MSG_CONFIG_PREFIX ==
    <<"C","o","n","f","i","g","u","r","a","t","i","o","n"," ","e","r","r","o","r",":"," ">>
\* KW_TICKER = 'ticker'
KW_TICKER ==
    <<"t","i","c","k","e","r">>
\* KW_SYMBOL = 'symbol'
KW_SYMBOL ==
    <<"s","y","m","b","o","l">>
\* KW_NOT_FOUND = 'not found'
KW_NOT_FOUND ==
    <<"n","o","t"," ","f","o","u","n","d">>
\* KW_RATE_LIMIT = 'rate limit'
KW_RATE_LIMIT ==
    <<"r","a","t","e"," ","l","i","m","i","t">>
\* KW_TOO_MANY = 'too many requests'
KW_TOO_MANY ==
    <<"t","o","o"," ","m","a","n","y"," ","r","e","q","u","e","s","t","s">>
\* KW_429 = '429'
KW_429 ==
    <<"4","2","9">>
\* KW_CONNECTION = 'connection'
KW_CONNECTION ==
    <<"c","o","n","n","e","c","t","i","o","n">>
\* KW_TIMEOUT = 'timeout'
KW_TIMEOUT ==
    <<"t","i","m","e","o","u","t">>
\* KW_NETWORK = 'network'
KW_NETWORK ==
    <<"n","e","t","w","o","r","k">>

\* the keyword lists of handle_agent_execution_error
TickerKeywords == {KW_TICKER, KW_SYMBOL, KW_NOT_FOUND}
RateLimitKeywords == {KW_RATE_LIMIT, KW_TOO_MANY, KW_429}
\* variant: 'timeout' is not a network keyword
NetworkKeywords_without_timeout == {KW_CONNECTION, KW_NETWORK}
NetworkKeywords == {KW_CONNECTION, KW_TIMEOUT, KW_NETWORK}

\* any(keyword in error_msg for keyword in keywords)
AnyKeywordIn(keywords, error_msg) == \E kw \in keywords : Contains(error_msg, kw)

---------------------------------------------------------------------------
(* error_handler.py: the handlers *)

\* variant: the class of the exception is looked at before its own error type
format_error_response_by_class(error) ==
    LET error_type ==
            IF IsInstance(error.cls, "FileNotFoundError")
               \/ IsInstance(error.cls, "OSError")
            THEN "CONFIGURATION_ERROR"
            ELSE IF IsInstance(error.cls, "ValueError")
            THEN "VALIDATION_ERROR"
            ELSE IF IsInstance(error.cls, "ConnectionError")
                    \/ IsInstance(error.cls, "TimeoutError")
            THEN "NETWORK_ERROR"
            ELSE "UNKNOWN_ERROR"
    IN  [error |-> Str(error),
         error_type |-> ErrorTypeValue(error_type),
         details |-> Some([exception_type |-> error.cls])]
format_error_response(error) ==
    IF IsInstance(error.cls, "FinancialAgentError")
    THEN to_dict(error)
    ELSE LET error_type ==
                 IF IsInstance(error.cls, "FileNotFoundError")
                    \/ IsInstance(error.cls, "OSError")
                 THEN "CONFIGURATION_ERROR"
                 ELSE IF IsInstance(error.cls, "ValueError")
                 THEN "VALIDATION_ERROR"
                 ELSE IF IsInstance(error.cls, "ConnectionError")
                         \/ IsInstance(error.cls, "TimeoutError")
                 THEN "NETWORK_ERROR"
                 ELSE "UNKNOWN_ERROR"
         IN  [error |-> Str(error),
              error_type |-> ErrorTypeValue(error_type),
              details |-> Some([exception_type |-> error.cls])]

handle_configuration_error(error) ==
    IF IsInstance(error.cls, "FileNotFoundError")
    THEN ConfigurationError(MSG_CONFIG_NOT_FOUND,
                            Some([original_error |-> Str(error)]))
    ELSE IF IsInstance(error.cls, "ValueError")
    THEN ConfigurationError(Str(error), Some([original_error |-> Str(error)]))
    ELSE ConfigurationError(MSG_CONFIG_PREFIX \o Str(error),
                            Some([original_error |-> Str(error),
                                  exception_type |-> error.cls]))

\* variant: the rate-limit keywords are tried before the ticker keywords
handle_agent_execution_error_rate_first(error, agent_name) ==
    LET error_msg == Lower(Str(error)) IN
    IF AnyKeywordIn(RateLimitKeywords, error_msg)
    THEN AgentExecutionError(MSG_RATE_LIMIT,
             Some([agent |-> agent_name, error_category |-> "rate_limit",
                   original_error |-> Str(error)]))
    ELSE IF AnyKeywordIn(TickerKeywords, error_msg)
    THEN AgentExecutionError(MSG_INVALID_TICKER,
             Some([agent |-> agent_name, error_category |-> "invalid_ticker",
                   original_error |-> Str(error)]))
    ELSE AgentExecutionError(agent_name \o MSG_EXEC_FAILED \o Str(error),
             Some([agent |-> agent_name, original_error |-> Str(error),
                   exception_type |-> error.cls]))

\* variant: the network keywords are tried before the rate-limit keywords
handle_agent_execution_error_network_first(error, agent_name) ==
    LET error_msg == Lower(Str(error)) IN
    IF AnyKeywordIn(TickerKeywords, error_msg)
    THEN AgentExecutionError(MSG_INVALID_TICKER,
             Some([agent |-> agent_name, error_category |-> "invalid_ticker",
                   original_error |-> Str(error)]))
    ELSE IF AnyKeywordIn(NetworkKeywords, error_msg)
    THEN AgentExecutionError(MSG_NETWORK,
             Some([agent |-> agent_name, error_category |-> "network",
                   original_error |-> Str(error)]))
    ELSE IF AnyKeywordIn(RateLimitKeywords, error_msg)
    THEN AgentExecutionError(MSG_RATE_LIMIT,
             Some([agent |-> agent_name, error_category |-> "rate_limit",
                   original_error |-> Str(error)]))
    ELSE AgentExecutionError(agent_name \o MSG_EXEC_FAILED \o Str(error),
             Some([agent |-> agent_name, original_error |-> Str(error),
                   exception_type |-> error.cls]))

handle_agent_execution_error(error, agent_name) ==
    LET error_msg == Lower(Str(error)) IN
    IF AnyKeywordIn(TickerKeywords, error_msg)
    THEN AgentExecutionError(MSG_INVALID_TICKER,
             Some([agent |-> agent_name, error_category |-> "invalid_ticker",
                   original_error |-> Str(error)]))
    ELSE IF AnyKeywordIn(RateLimitKeywords, error_msg)
    THEN AgentExecutionError(MSG_RATE_LIMIT,
             Some([agent |-> agent_name, error_category |-> "rate_limit",
                   original_error |-> Str(error)]))
    ELSE IF AnyKeywordIn(NetworkKeywords, error_msg)
    THEN AgentExecutionError(MSG_NETWORK,
             Some([agent |-> agent_name, error_category |-> "network",
                   original_error |-> Str(error)]))
    ELSE AgentExecutionError(agent_name \o MSG_EXEC_FAILED \o Str(error),
             Some([agent |-> agent_name, original_error |-> Str(error),
                   exception_type |-> error.cls]))

\* bool(status_code) of an Optional[int]
StatusTruthy(status_code) == ~IsNone(status_code) /\ ValueOf(status_code) # 0

\* variant: 401 and 403 share the authentication message
ApiMessage_auth_shared(error, status_code) ==
    IF status_code = Some(400) THEN MSG_400
    ELSE IF status_code \in {Some(401), Some(403)} THEN MSG_401
    ELSE IF status_code = Some(404) THEN MSG_404
    ELSE IF status_code = Some(429) THEN MSG_429
    ELSE IF status_code \in {Some(500), Some(503)} THEN MSG_500
    ELSE MSG_API_PREFIX \o Str(error)

\* the status-code table of handle_api_error
ApiMessage(error, status_code) ==
    IF status_code = Some(400) THEN MSG_400
    ELSE IF status_code = Some(401) THEN MSG_401
    ELSE IF status_code = Some(403) THEN MSG_403
    ELSE IF status_code = Some(404) THEN MSG_404
    ELSE IF status_code = Some(429) THEN MSG_429
    ELSE IF status_code = Some(500) THEN MSG_500
    ELSE IF status_code = Some(503) THEN MSG_503
    ELSE MSG_API_PREFIX \o Str(error)

handle_api_error(error, status_code) ==
    LET base == [original_error |-> Str(error), exception_type |-> error.cls]
        details == IF StatusTruthy(status_code)
                   THEN base @@ ("status_code" :> ValueOf(status_code))
                   ELSE base
    IN  APIError(ApiMessage(error, status_code), Some(details))

---------------------------------------------------------------------------
(* financial_agent_module.py: query_financial_agent *)

\* NAME_FINANCIALAGENT = 'FinancialAgent'
NAME_FINANCIALAGENT ==
    <<"F","i","n","a","n","c","i","a","l","A","g","e","n","t">>

\* the f-string query_financial_agent returns for a failed run, as its pieces
ErrorDisplay(error_dict) ==
    <<"**Error**: ", error_dict.error, "\n\n**Error Type**: ",
      error_dict.error_type, "\n">>

\* query_financial_agent(query, agent), for what agent.run(query) did
query_financial_agent(run_outcome) ==
    IF run_outcome.kind = "return"
    THEN Return(run_outcome.value)
    ELSE LET error == handle_agent_execution_error(run_outcome.error,
                                                   NAME_FINANCIALAGENT)
         IN  Return(ErrorDisplay(to_dict(error)))

---------------------------------------------------------------------------
(* Inputs of the error handlers *)

\* FRAG_TICKER = 'Ticker'
FRAG_TICKER ==
    <<"T","i","c","k","e","r">>
\* FRAG_SYMBOL = 'SYMBOL'
FRAG_SYMBOL ==
    <<"S","Y","M","B","O","L">>
\* FRAG_NOT_FOUND = 'Not Found'
FRAG_NOT_FOUND ==
    <<"N","o","t"," ","F","o","u","n","d">>
\* FRAG_RATE_LIMIT = 'Rate Limit'
FRAG_RATE_LIMIT ==
    <<"R","a","t","e"," ","L","i","m","i","t">>
\* FRAG_TOO_MANY = 'Too Many Requests'
FRAG_TOO_MANY ==
    <<"T","o","o"," ","M","a","n","y"," ","R","e","q","u","e","s","t","s">>
\* FRAG_429 = '429'
FRAG_429 ==
    <<"4","2","9">>
\* FRAG_CONNECTION = 'Connection'
FRAG_CONNECTION ==
    <<"C","o","n","n","e","c","t","i","o","n">>
\* FRAG_TIMEOUT = 'timed out: timeout'
FRAG_TIMEOUT ==
    <<"t","i","m","e","d"," ","o","u","t",":"," ","t","i","m","e","o","u","t">>
\* FRAG_NETWORK = 'NETWORK'
FRAG_NETWORK ==
    <<"N","E","T","W","O","R","K">>
\* FRAG_SPACE = ' '
FRAG_SPACE ==
    <<" ">>
\* FRAG_OTHER = 'quota'
FRAG_OTHER ==
    <<"q","u","o","t","a">>
\* NAME_AGENT = 'Agent'
NAME_AGENT ==
    <<"A","g","e","n","t">>
\* NAME_FINANCIAL_AGENT = 'Financial Agent'
NAME_FINANCIAL_AGENT ==
    <<"F","i","n","a","n","c","i","a","l"," ","A","g","e","n","t">>
\* NAME_WEB_SEARCH_AGENT = 'Web Search Agent'
NAME_WEB_SEARCH_AGENT ==
    <<"W","e","b"," ","S","e","a","r","c","h"," ","A","g","e","n","t">>
\* NAME_MULTI_AGENT = 'Multi-Agent System'
NAME_MULTI_AGENT ==
    <<"M","u","l","t","i","-","A","g","e","n","t"," ","S","y","s","t","e","m">>

\* exception texts are built from these pieces
ErrFragments ==
    {FRAG_TICKER, FRAG_SYMBOL, FRAG_NOT_FOUND, FRAG_RATE_LIMIT, FRAG_TOO_MANY,
     FRAG_429, FRAG_CONNECTION, FRAG_TIMEOUT, FRAG_NETWORK, FRAG_SPACE, FRAG_OTHER}

\* at most this many pieces in one exception text
MaxErrFrags == 2

ErrTexts == {Concat(q) : q \in SeqsUpTo(ErrFragments, MaxErrFrags)}

StatusCodes ==
    {None} \cup {Some(n) : n \in {0, 200, 400, 401, 403, 404, 418, 429, 500, 502, 503}}

AgentNames == {NAME_AGENT, NAME_FINANCIAL_AGENT}

\* the details argument of a constructor: omitted, empty, or a mapping
DetailsArgs(text) == {None, Some(EmptyDict), Some([original_error |-> text])}

\* operations that return an exception object
ObjectOps ==
    {"new", "handle_api_error", "handle_agent_execution_error",
     "handle_configuration_error"}

\* the values no variable of an idle component changes
LogIdle == log_text = <<>> /\ record = None /\ emitted = None
CliIdle ==
    /\ argv = None /\ pc = "idle" /\ constructed = <<>> /\ env = None /\ config = None
    /\ run_calls = <<>> /\ exec_log = <<>> /\ stdout = <<>> /\ exit_status = None
ErrIdle == err_text = <<>> /\ call = [op |-> "none"] /\ result = None
PlayIdle == module_name = "none" /\ app = None /\ served = FALSE /\ startup_error = None
E2EIdle == prereq = None /\ results = <<>> /\ run_returned = None

---------------------------------------------------------------------------
(* The error handlers, each applied to the exception at hand; the object a   *)
(* handler returns can then be formatted.                                  *)

ErrInit ==
    /\ err_text \in ErrTexts
    /\ call = [op |-> "none"]
    /\ result = None
    /\ LogIdle
    /\ CliIdle
    /\ PlayIdle
    /\ E2EIdle

\* FinancialAgentError(...) or one of its subclasses is constructed
NewError ==
    /\ call.op = "none"
    /\ \E cls \in {"FinancialAgentError"} \cup Subclasses,
          error_type \in ErrorType, details \in DetailsArgs(err_text) :
          /\ cls # "FinancialAgentError" => error_type = SubclassErrorType(cls)
          /\ call' = [op |-> "new", cls |-> cls, error_type |-> error_type,
                      details |-> details]
          /\ result' = Construct(cls, err_text, error_type, details)
    /\ UNCHANGED <<err_text, log_vars, cli_vars, play_vars, e2e_vars>>

HandleApiError ==
    /\ call.op = "none"
    /\ \E cls \in {"Exception", "ConnectionError"}, status_code \in StatusCodes :
          LET error == BuiltinError(cls, err_text) IN
          /\ call' = [op |-> "handle_api_error", error |-> error,
                      status_code |-> status_code]
          /\ result' = handle_api_error(error, status_code)
    /\ UNCHANGED <<err_text, log_vars, cli_vars, play_vars, e2e_vars>>

HandleAgentExecutionError ==
    /\ call.op = "none"
    /\ \E cls \in {"Exception", "ValueError"}, agent_name \in AgentNames :
          LET error == BuiltinError(cls, err_text) IN
          /\ call' = [op |-> "handle_agent_execution_error", error |-> error,
                      agent_name |-> agent_name]
          /\ result' = handle_agent_execution_error(error, agent_name)
    /\ UNCHANGED <<err_text, log_vars, cli_vars, play_vars, e2e_vars>>

HandleConfigurationError ==
    /\ call.op = "none"
    /\ \E cls \in {"FileNotFoundError", "ValueError", "OSError"} :
          LET error == BuiltinError(cls, err_text) IN
          /\ call' = [op |-> "handle_configuration_error", error |-> error]
          /\ result' = handle_configuration_error(error)
    /\ UNCHANGED <<err_text, log_vars, cli_vars, play_vars, e2e_vars>>

\* query_financial_agent with an agent whose run returns or raises
QueryFinancialAgent ==
    /\ call.op = "none"
    /\ \E run_outcome \in {Return("response")}
            \cup {Raise(BuiltinError(cls, err_text)) :
                     cls \in {"Exception", "ConnectionError"}} :
          /\ call' = [op |-> "query_financial_agent", run |-> run_outcome]
          /\ result' = query_financial_agent(run_outcome)
    /\ UNCHANGED <<err_text, log_vars, cli_vars, play_vars, e2e_vars>>

\* to_dict() of the exception object the last operation returned
ToDict ==
    /\ call.op \in ObjectOps
    /\ call' = [op |-> "to_dict", error |-> result]
    /\ result' = to_dict(result)
    /\ UNCHANGED <<err_text, log_vars, cli_vars, play_vars, e2e_vars>>

\* format_error_response of a library exception, or of the object at hand
FormatErrorResponse ==
    /\ \E error \in IF call.op = "none"
                    THEN {BuiltinError(cls, err_text) : cls \in BuiltinClasses}
                    ELSE IF call.op \in ObjectOps THEN {result} ELSE {} :
          /\ call' = [op |-> "format_error_response", error |-> error]
          /\ result' = format_error_response(error)
    /\ UNCHANGED <<err_text, log_vars, cli_vars, play_vars, e2e_vars>>

ErrNext ==
    \/ NewError
    \/ HandleApiError
    \/ HandleAgentExecutionError
    \/ HandleConfigurationError
    \/ QueryFinancialAgent
    \/ ToDict
    \/ FormatErrorResponse

ErrSpec == ErrInit /\ [][ErrNext]_vars

---------------------------------------------------------------------------
(* Properties of the error handlers (checked under ErrSpec) *)

\* the details mapping of an exception object or a formatted response
DetailsOf(r) == ValueOf(r.details)

HasCategory(r, category) ==
    /\ "error_category" \in DOMAIN DetailsOf(r)
    /\ DetailsOf(r).error_category = category

\* the lowercased text of the exception passed to the last call
CallText == Lower(Str(call.error))

\* C1: handle_api_error(e, s) returns an APIError whose message is chosen by s
\* alone for s in 400, 401, 403, 404, 429, 500, 503 (one message per code), and
\* is 'API error occurred: ' followed by str(e) for every other s, None included.
C1_ApiMessageByStatus ==
    call.op = "handle_api_error" =>
        LET table == <<<<400, MSG_400>>, <<401, MSG_401>>, <<403, MSG_403>>,
                       <<404, MSG_404>>, <<429, MSG_429>>, <<500, MSG_500>>,
                       <<503, MSG_503>>>>
            s == call.status_code
        IN  /\ result.cls = "APIError"
            /\ \A i \in 1..Len(table) :
                  s = Some(table[i][1]) => result.message = table[i][2]
            /\ (\A i \in 1..Len(table) : s # Some(table[i][1]))
                  => result.message = MSG_API_PREFIX \o Str(call.error)
            /\ \A i, j \in 1..Len(table) : i # j => table[i][2] # table[j][2]

\* C1 witness: a 403 answered with the access-forbidden message, for a
\* non-empty exception text
C1_Witness ==
    /\ call.op = "handle_api_error"
    /\ call.status_code = Some(403)
    /\ Str(call.error) # <<>>
    /\ result.message = MSG_403

\* C2: an exception whose lowercased text contains 'ticker', 'symbol' or
\* 'not found' is classified invalid_ticker, whatever its letter case and
\* whatever other keywords it contains.
C2_TickerKeywordWins ==
    (/\ call.op = "handle_agent_execution_error"
     /\ \E kw \in {KW_TICKER, KW_SYMBOL, KW_NOT_FOUND} : Contains(CallText, kw))
        => HasCategory(result, "invalid_ticker")

\* C2 witness: a text that is not lowercase and holds both a ticker keyword
\* and a rate-limit keyword, classified invalid_ticker
C2_Witness ==
    /\ call.op = "handle_agent_execution_error"
    /\ Str(call.error) # CallText
    /\ Contains(CallText, KW_SYMBOL)
    /\ Contains(CallText, KW_RATE_LIMIT)
    /\ HasCategory(result, "invalid_ticker")

\* C3 as stated: every exception whose lowercased text contains 'rate limit',
\* 'too many requests' or '429' is classified rate_limit.
C3_RateLimitAlways ==
    (/\ call.op = "handle_agent_execution_error"
     /\ \E kw \in {KW_RATE_LIMIT, KW_TOO_MANY, KW_429} : Contains(CallText, kw))
        => HasCategory(result, "rate_limit")

\* C3 amended: an exception whose lowercased text contains 'rate limit',
\* 'too many requests' or '429' and none of 'ticker', 'symbol', 'not found'
\* is classified rate_limit, whatever network keywords it also contains.
C3_RateLimitUnlessTicker ==
    (/\ call.op = "handle_agent_execution_error"
     /\ \E kw \in {KW_RATE_LIMIT, KW_TOO_MANY, KW_429} : Contains(CallText, kw)
     /\ \A kw \in {KW_TICKER, KW_SYMBOL, KW_NOT_FOUND} : ~Contains(CallText, kw))
        => HasCategory(result, "rate_limit")

\* C3 witness: 'Too Many Requests' next to a network keyword, classified
\* rate_limit
C3_Witness ==
    /\ call.op = "handle_agent_execution_error"
    /\ Contains(CallText, KW_TOO_MANY)
    /\ Contains(CallText, KW_CONNECTION)
    /\ HasCategory(result, "rate_limit")

\* C4: every error object and every dictionary from to_dict or
\* format_error_response carries an error type of the taxonomy, a message and
\* a details mapping that is never None; omitted or empty details become the
\* empty mapping; each subclass carries its own fixed error type.
C4_ErrorShape ==
    /\ call.op \in ObjectOps =>
          /\ result.error_type \in ErrorType
          /\ "message" \in DOMAIN result
          /\ ~IsNone(result.details)
          /\ \A fixed \in {<<"ConfigurationError", "CONFIGURATION_ERROR">>,
                           <<"AgentExecutionError", "AGENT_EXECUTION_ERROR">>,
                           <<"APIError", "API_ERROR">>,
                           <<"ValidationError", "VALIDATION_ERROR">>,
                           <<"NetworkError", "NETWORK_ERROR">>} :
                result.cls = fixed[1] => result.error_type = fixed[2]
    /\ (call.op = "new" /\ call.details \in {None, Some(EmptyDict)})
          => result.details = Some(EmptyDict)
    /\ call.op \in {"to_dict", "format_error_response"} =>
          /\ result.error_type \in
                {"configuration_error", "agent_execution_error", "api_error",
                 "validation_error", "network_error", "unknown_error"}
          /\ "error" \in DOMAIN result
          /\ ~IsNone(result.details)

\* C4 witness: to_dict of a NetworkError constructed without details
C4_Witness ==
    /\ call.op = "to_dict"
    /\ call.error.cls = "NetworkError"
    /\ result.error_type = "network_error"
    /\ result.details = Some(EmptyDict)

\* C15: query_financial_agent raises AgentExecutionError when the agent's run
\* raises an exception.
C15_RaisesAgentExecutionError ==
    (call.op = "query_financial_agent" /\ call.run.kind = "raise") =>
        /\ result.kind = "raise"
        /\ result.error.cls = "AgentExecutionError"

\* C17: format_error_response classifies every ConnectionError and every
\* TimeoutError that is not a FinancialAgentError as 'network_error'.
C17_NetworkErrorsClassified ==
    (/\ call.op = "format_error_response"
     /\ call.error.cls \in {"ConnectionError", "TimeoutError"})
        => result.error_type = "network_error"

\* C18: format_error_response returns the message, the own error type and
\* the details of a FinancialAgentError unchanged; for any other exception it
\* returns the exception text, details {'exception_type': class name} and
\* 'configuration_error' for FileNotFoundError/IOError, 'validation_error'
\* for ValueError, 'unknown_error' for a class outside the listed ones.
C18_FormatByKind ==
    call.op = "format_error_response" =>
        LET error == call.error
            own == <<<<"CONFIGURATION_ERROR", "configuration_error">>,
                     <<"AGENT_EXECUTION_ERROR", "agent_execution_error">>,
                     <<"API_ERROR", "api_error">>,
                     <<"VALIDATION_ERROR", "validation_error">>,
                     <<"NETWORK_ERROR", "network_error">>,
                     <<"UNKNOWN_ERROR", "unknown_error">>>>
        IN  IF error.cls \in {"FinancialAgentError"} \cup Subclasses
            THEN /\ result.error = error.message
                 /\ \A i \in 1..Len(own) :
                       error.error_type = own[i][1] => result.error_type = own[i][2]
                 /\ result.details = error.details
                 /\ DOMAIN result = {"error", "error_type", "details"}
            ELSE /\ result.error = error.message
                 /\ result.details = Some([exception_type |-> error.cls])
                 /\ error.cls \in {"FileNotFoundError", "OSError"}
                       => result.error_type = "configuration_error"
                 /\ error.cls = "ValueError"
                       => result.error_type = "validation_error"
                 /\ error.cls \in {"Exception", "RuntimeError"}
                       => result.error_type = "unknown_error"

\* C18 witness: a base-class FinancialAgentError carrying API_ERROR and a
\* details mapping was formatted and kept its type and details
C18_Witness ==
    /\ call.op = "format_error_response"
    /\ call.error.cls = "FinancialAgentError"
    /\ call.error.error_type = "API_ERROR"
    /\ DictTruthy(DetailsOf(call.error))
    /\ result.error_type = "api_error"
    /\ result.details = call.error.details

\* C19 as stated: every exception whose lowercased text contains
\* 'connection', 'timeout' or 'network' is classified network.
C19_NetworkAlways ==
    (/\ call.op = "handle_agent_execution_error"
     /\ \E kw \in {KW_CONNECTION, KW_TIMEOUT, KW_NETWORK} : Contains(CallText, kw))
        => HasCategory(result, "network")

\* C19 amended: an exception whose lowercased text contains 'connection',
\* 'timeout' or 'network' and none of the ticker keywords ('ticker', 'symbol',
\* 'not found') or rate-limit keywords ('rate limit', 'too many requests',
\* '429') is classified network.
C19_NetworkUnlessTickerOrRateLimit ==
    (/\ call.op = "handle_agent_execution_error"
     /\ \E kw \in {KW_CONNECTION, KW_TIMEOUT, KW_NETWORK} : Contains(CallText, kw)
     /\ \A kw \in {KW_TICKER, KW_SYMBOL, KW_NOT_FOUND,
                    KW_RATE_LIMIT, KW_TOO_MANY, KW_429} : ~Contains(CallText, kw))
        => HasCategory(result, "network")

\* C19 witness: a text that is not lowercase and holds 'connection' and
\* 'timeout', classified network
C19_Witness ==
    /\ call.op = "handle_agent_execution_error"
    /\ Str(call.error) # CallText
    /\ Contains(CallText, KW_CONNECTION)
    /\ Contains(CallText, KW_TIMEOUT)
    /\ HasCategory(result, "network")

---------------------------------------------------------------------------
(* logger.py: regular expressions *)

\* REDACTED_API_KEY = '[REDACTED_API_KEY]'
REDACTED_API_KEY ==
    <<"[","R","E","D","A","C","T","E","D","_","A","P","I","_","K","E","Y","]">>
\* REDACTED = '[REDACTED]'
REDACTED ==
    <<"[","R","E","D","A","C","T","E","D","]">>
\* LIT_PHIDATA_API_KEY = 'PHIDATA_API_KEY'
LIT_PHIDATA_API_KEY ==
    <<"P","H","I","D","A","T","A","_","A","P","I","_","K","E","Y">>
\* LIT_GROQ_API_KEY = 'GROQ_API_KEY'
LIT_GROQ_API_KEY ==
    <<"G","R","O","Q","_","A","P","I","_","K","E","Y">>
\* LIT_OPENAI_API_KEY = 'OPENAI_API_KEY'
LIT_OPENAI_API_KEY ==
    <<"O","P","E","N","A","I","_","A","P","I","_","K","E","Y">>
\* LIT_API = 'api'
LIT_API ==
    <<"a","p","i">>
\* LIT_KEY = 'key'
LIT_KEY ==
    <<"k","e","y">>
\* LIT_TOKEN = 'token'
LIT_TOKEN ==
    <<"t","o","k","e","n">>
\* LIT_SK = 'sk-'
LIT_SK ==
    <<"s","k","-">>
\* TXT_ERROR_OCCURRED = 'Error occurred: '
TXT_ERROR_OCCURRED ==
    <<"E","r","r","o","r"," ","o","c","c","u","r","r","e","d",":"," ">>
\* TXT_COLON = ': '
TXT_COLON ==
    <<":"," ">>
\* TXT_CONTEXT = ' | Context: '
TXT_CONTEXT ==
    <<" ","|"," ","C","o","n","t","e","x","t",":"," ">>
\* TXT_PROCESSING_QUERY = 'Processing query: '
TXT_PROCESSING_QUERY ==
    <<"P","r","o","c","e","s","s","i","n","g"," ","q","u","e","r","y",":"," ">>
\* TXT_DICT_CLOSE = "'}"
TXT_DICT_CLOSE ==
    <<"'","}">>
\* TXT_TRACEBACK = 'Traceback (most recent call last):\n  File "financial_agent.py", line 161, in execute_query\n    response = agent.run(query)\n'
TXT_TRACEBACK ==
    <<"T","r","a","c","e","b","a","c","k"," ","(","m","o","s","t"," ","r","e","c","e","n","t"," ","c","a","l","l"," ","l","a","s","t",")",":","\n"," "," ","F","i","l","e"," ","\"","f","i","n","a","n","c","i","a","l","_","a","g","e","n","t",".","p","y","\"",","," ","l","i","n","e"," ","1","6","1",","," ","i","n"," ","e","x","e","c","u","t","e","_","q","u","e","r","y","\n"," "," "," "," ","r","e","s","p","o","n","s","e"," ","="," ","a","g","e","n","t",".","r","u","n","(","q","u","e","r","y",")","\n">>
\* TXT_TIMESTAMP = '2024-01-01T00:00:00.000000'
TXT_TIMESTAMP ==
    <<"2","0","2","4","-","0","1","-","0","1","T","0","0",":","0","0",":","0","0",".","0","0","0","0","0","0">>
\* TXT_SEP = ' - '
TXT_SEP ==
    <<" ","-"," ">>
\* TXT_LOGGER_NAME = 'financial_agent.main'
TXT_LOGGER_NAME ==
    <<"f","i","n","a","n","c","i","a","l","_","a","g","e","n","t",".","m","a","i","n">>
\* TXT_AGENT_OPEN = '[Agent:'
TXT_AGENT_OPEN ==
    <<"[","A","g","e","n","t",":">>
\* TXT_QUERY_OPEN = '[Query:'
TXT_QUERY_OPEN ==
    <<"[","Q","u","e","r","y",":">>
\* TXT_CLOSE = '] '
TXT_CLOSE ==
    <<"]"," ">>
\* TXT_NEWLINE = '\n'
TXT_NEWLINE ==
    <<"\n">>
\* TXT_MODULE_PREFIX = 'error_handler.'
TXT_MODULE_PREFIX ==
    <<"e","r","r","o","r","_","h","a","n","d","l","e","r",".">>
\* CLSNAME_Exception = 'Exception'
CLSNAME_Exception ==
    <<"E","x","c","e","p","t","i","o","n">>
\* CLSNAME_ValueError = 'ValueError'
CLSNAME_ValueError ==
    <<"V","a","l","u","e","E","r","r","o","r">>
\* CLSNAME_ConnectionError = 'ConnectionError'
CLSNAME_ConnectionError ==
    <<"C","o","n","n","e","c","t","i","o","n","E","r","r","o","r">>
\* CLSNAME_ConfigurationError = 'ConfigurationError'
CLSNAME_ConfigurationError ==
    <<"C","o","n","f","i","g","u","r","a","t","i","o","n","E","r","r","o","r">>

\* membership of one character in a character class of the patterns
InClass(c, class) ==
    CASE class = "space"    -> IsSpace(c)                      \* \s
      [] class = "nonspace" -> ~IsSpace(c)                     \* [^\s]
      [] class = "alnum"    -> c \in AlnumChars               \* [a-zA-Z0-9]
      [] class = "key"      -> c \in KeyChars                 \* [a-zA-Z0-9_-]
      [] class = "assign"   -> c \in {"=", ":"}                \* [=:]
      [] class = "quote"    -> c \in {"\"", "'"}               \* ["\']
      [] class = "sep"      -> c \in {"_", "-"}                \* [_-]

\* the position after the longest run of class characters that starts at i
RunEnd(text, i, class) ==
    CHOOSE j \in i..(Len(text) + 1) :
        /\ j = Len(text) + 1 \/ ~InClass(text[j], class)
        /\ \A k \in i..(j - 1) : InClass(text[k], class)

\* the position after an optional single character of the class at i
OptEnd(text, i, class) ==
    IF i <= Len(text) /\ InClass(text[i], class) THEN i + 1 ELSE i

\* the position after one character of the class at i, or 0
OneEnd(text, i, class) ==
    IF i <= Len(text) /\ InClass(text[i], class) THEN i + 1 ELSE 0

\* the position after the literal at i, or 0; with re.IGNORECASE letters
\* match in either case
LitEnd(text, i, lit, ignorecase) ==
    IF i + Len(lit) - 1 <= Len(text)
       /\ \A k \in 1..Len(lit) :
             \/ text[i + k - 1] = lit[k]
             \/ ignorecase /\ LowerChar(text[i + k - 1]) = LowerChar(lit[k])
    THEN i + Len(lit) ELSE 0

\* a run of at least n class characters at i: the position after it, or 0
RunAtLeast(text, i, class, n) ==
    LET j == RunEnd(text, i, class) IN IF j - i >= n THEN j ELSE 0

\* the least number of key characters the key patterns ask for ({20,})
MinKeyLen == 20
\* the least length of a "long string that might be a key" ({40,})
MinLongLen == 40

\* NAME[=:]\s*[^\s]+ at i
EnvKeyEnd(text, i, name, ignorecase) ==
    LET a == LitEnd(text, i, name, ignorecase) IN
    IF a = 0 THEN 0 ELSE
    LET b == OneEnd(text, a, "assign") IN
    IF b = 0 THEN 0 ELSE
    LET c == RunEnd(text, b, "space")
        d == RunEnd(text, c, "nonspace")
    IN  IF d > c THEN d ELSE 0

\* ["\']?\s*[=:]\s*["\']?[a-zA-Z0-9_-]{20,} at i
AssignedValueEnd(text, i) ==
    LET a == RunEnd(text, OptEnd(text, i, "quote"), "space")
        b == OneEnd(text, a, "assign")
    IN  IF b = 0 THEN 0 ELSE
        RunAtLeast(text, OptEnd(text, RunEnd(text, b, "space"), "quote"),
                   "key", MinKeyLen)

\* api[_-]?key followed by an assigned value, at i
ApiKeyEnd(text, i, ignorecase) ==
    LET a == LitEnd(text, i, LIT_API, ignorecase) IN
    IF a = 0 THEN 0 ELSE
    LET b == LitEnd(text, OptEnd(text, a, "sep"), LIT_KEY, ignorecase) IN
    IF b = 0 THEN 0 ELSE AssignedValueEnd(text, b)

\* token followed by an assigned value, at i
TokenEnd(text, i, ignorecase) ==
    LET a == LitEnd(text, i, LIT_TOKEN, ignorecase) IN
    IF a = 0 THEN 0 ELSE AssignedValueEnd(text, a)

\* sk-[a-zA-Z0-9]{20,} at i
SkKeyEnd(text, i, ignorecase) ==
    LET a == LitEnd(text, i, LIT_SK, ignorecase) IN
    IF a = 0 THEN 0 ELSE RunAtLeast(text, a, "alnum", MinKeyLen)

\* [a-zA-Z0-9_-]{40,} at i
LongRunEnd(text, i) == RunAtLeast(text, i, "key", MinLongLen)

\* SensitiveDataFilter.SENSITIVE_PATTERNS, in the order of the list
SENSITIVE_PATTERNS == <<"phidata", "groq", "openai", "api_key", "token", "sk">>

\* the patterns of _sanitize_query, in the order of its list
QueryPatterns == <<"sk", "long">>

\* re.match of pattern p at position i of text: the position after the match,
\* or 0 when the pattern does not match there
MatchEnd(p, text, i, ignorecase) ==
    CASE p = "phidata" -> EnvKeyEnd(text, i, LIT_PHIDATA_API_KEY, ignorecase)
      [] p = "groq"    -> EnvKeyEnd(text, i, LIT_GROQ_API_KEY, ignorecase)
      [] p = "openai"  -> EnvKeyEnd(text, i, LIT_OPENAI_API_KEY, ignorecase)
      [] p = "api_key" -> ApiKeyEnd(text, i, ignorecase)
      [] p = "token"   -> TokenEnd(text, i, ignorecase)
      [] p = "sk"      -> SkKeyEnd(text, i, ignorecase)
      [] p = "long"    -> LongRunEnd(text, i)

\* re.search(p, text) finds a match
Search(p, text, ignorecase) ==
    \E i \in 1..Len(text) : MatchEnd(p, text, i, ignorecase) > 0

\* the start positions, from i on, at which pattern p matches
MatchStarts(p, text, i, ignorecase) ==
    {j \in i..Len(text) : MatchEnd(p, text, j, ignorecase) > 0}

Min(S) == CHOOSE x \in S : \A y \in S : x <= y

\* re.sub(p, repl, text): leftmost, non-overlapping matches, scanned from i;
\* the text up to the next match is kept, the match becomes repl, and the
\* scan resumes after the match
RECURSIVE SubFrom(_, _, _, _, _)
SubFrom(p, repl, text, i, ignorecase) ==
    LET starts == MatchStarts(p, text, i, ignorecase) IN
    IF starts = {} THEN SubSeq(text, i, Len(text))
    ELSE LET j == Min(starts)
             e == MatchEnd(p, text, j, ignorecase)
         IN  SubSeq(text, i, j - 1) \o repl \o SubFrom(p, repl, text, e, ignorecase)

Sub(p, repl, text, ignorecase) == SubFrom(p, repl, text, 1, ignorecase)

\* KEY_QUERY = 'query'
KEY_QUERY ==
    <<"q","u","e","r","y">>
\* KEY_STAGE = 'stage'
KEY_STAGE ==
    <<"s","t","a","g","e">>
\* VAL_CONFIGURATION = 'configuration'
VAL_CONFIGURATION ==
    <<"c","o","n","f","i","g","u","r","a","t","i","o","n">>
\* TERM_API_KEY = 'api_key'
TERM_API_KEY ==
    <<"a","p","i","_","k","e","y">>
\* TERM_TOKEN = 'token'
TERM_TOKEN ==
    <<"t","o","k","e","n">>
\* TERM_PASSWORD = 'password'
TERM_PASSWORD ==
    <<"p","a","s","s","w","o","r","d">>
\* TERM_SECRET = 'secret'
TERM_SECRET ==
    <<"s","e","c","r","e","t">>
\* TERM_KEY = 'key'
TERM_KEY ==
    <<"k","e","y">>
\* TXT_DICT_OPEN = "{'"
TXT_DICT_OPEN ==
    <<"{","'">>
\* TXT_DICT_MID = "': '"
TXT_DICT_MID ==
    <<"'",":"," ","'">>
\* TXT_LEVEL_ERROR = 'ERROR'
TXT_LEVEL_ERROR ==
    <<"E","R","R","O","R">>
\* TXT_LEVEL_INFO = 'INFO'
TXT_LEVEL_INFO ==
    <<"I","N","F","O">>
\* TXT_QUERY_ID = '2024-01-01T00:00:00.000000'
TXT_QUERY_ID ==
    <<"2","0","2","4","-","0","1","-","0","1","T","0","0",":","0","0",":","0","0",".","0","0","0","0","0","0">>

---------------------------------------------------------------------------
(* logger.py: sanitizers, filter and formatter *)

\* for pattern in patterns: text = re.sub(pattern, repl, text)
RECURSIVE SubAll(_, _, _, _)
SubAll(patterns, repl, text, ignorecase) ==
    IF patterns = <<>> THEN text
    ELSE SubAll(Tail(patterns), repl,
                Sub(Head(patterns), repl, text, ignorecase), ignorecase)

\* variant: the patterns are applied without re.IGNORECASE
_sanitize_text_case_sensitive(text) ==
    SubAll(SENSITIVE_PATTERNS, REDACTED_API_KEY, text, FALSE)

\* SensitiveDataFilter._sanitize_text
_sanitize_text(text) ==
    SubAll(SENSITIVE_PATTERNS, REDACTED_API_KEY, text, TRUE)

\* SensitiveDataFilter._sanitize_value, for the string arguments of a record
_sanitize_value(value) == _sanitize_text(value)

\* SensitiveDataFilter.filter: the record as the filter leaves it
Filter(rec) ==
    [rec EXCEPT !.msg = _sanitize_text(rec.msg),
                !.args = [i \in DOMAIN rec.args |-> _sanitize_value(rec.args[i])]]

\* _sanitize_query
_sanitize_query(query) == SubAll(QueryPatterns, REDACTED, query, FALSE)

sensitive_keys == {TERM_API_KEY, TERM_TOKEN, TERM_PASSWORD, TERM_SECRET, TERM_KEY}

\* _sanitize_dict of a one-entry context {key: value} with a string value
_sanitize_dict(data) ==
    IF \E term \in sensitive_keys : Contains(Lower(data.key), term)
    THEN [key |-> data.key, value |-> REDACTED]
    ELSE [key |-> data.key, value |-> _sanitize_query(data.value)]

\* str() of a one-entry dict of strings (values without quotes or escapes)
DictRepr(data) ==
    TXT_DICT_OPEN \o data.key \o TXT_DICT_MID \o data.value \o TXT_DICT_CLOSE

\* type(error).__name__
ClassNameText(cls) ==
    CASE cls = "Exception"          -> CLSNAME_Exception
      [] cls = "ValueError"         -> CLSNAME_ValueError
      [] cls = "ConnectionError"    -> CLSNAME_ConnectionError
      [] cls = "ConfigurationError" -> CLSNAME_ConfigurationError

\* the traceback text logging.Formatter.formatException produces for the
\* exception being handled: the frames, then the exception's own line
FormatException(error) ==
    LET qualname == IF IsInstance(error.cls, "FinancialAgentError")
                    THEN TXT_MODULE_PREFIX \o ClassNameText(error.cls)
                    ELSE ClassNameText(error.cls)
    IN  TXT_TRACEBACK \o qualname \o
        (IF Str(error) = <<>> THEN <<>> ELSE TXT_COLON \o Str(error))

\* LogRecord.getMessage: msg % args only when there are args
GetMessage(rec) == rec.msg

\* logging.Formatter.format with the fmt of setup_logging: the formatted
\* line, then the traceback text when the record carries exc_info
BaseFormat(rec) ==
    LET s == TXT_TIMESTAMP \o TXT_SEP \o TXT_LOGGER_NAME \o TXT_SEP
             \o rec.levelname \o TXT_SEP \o GetMessage(rec)
    IN  IF IsNone(rec.exc_info) THEN s
        ELSE (IF s[Len(s)] = "\n" THEN s ELSE s \o TXT_NEWLINE)
             \o FormatException(ValueOf(rec.exc_info))

\* StructuredFormatter.format
StructuredFormat(rec) ==
    LET message == BaseFormat(rec)
        withQuery == IF IsNone(rec.query_id) THEN message
                     ELSE TXT_QUERY_OPEN \o ValueOf(rec.query_id) \o TXT_CLOSE \o message
    IN  IF IsNone(rec.agent_name) THEN withQuery
        ELSE TXT_AGENT_OPEN \o ValueOf(rec.agent_name) \o TXT_CLOSE \o withQuery

\* the LogRecord a logging call creates
MakeRecord(levelname, msg, exc_info, agent_name, query_id) ==
    [levelname |-> levelname, msg |-> msg, args |-> <<>>, exc_info |-> exc_info,
     agent_name |-> agent_name, query_id |-> query_id]

\* log_error: the record it hands to the logger
log_error(error, context, agent_name) ==
    LET head == TXT_ERROR_OCCURRED \o ClassNameText(error.cls) \o TXT_COLON
                \o Str(error)
        error_msg == IF IsNone(context) THEN head
                     ELSE head \o TXT_CONTEXT
                          \o DictRepr(_sanitize_dict(ValueOf(context)))
    IN  MakeRecord(TXT_LEVEL_ERROR, error_msg, Some(error), agent_name, None)

\* log_query: the record it hands to the logger
log_query(query, agent_name) ==
    MakeRecord(TXT_LEVEL_INFO, TXT_PROCESSING_QUERY \o _sanitize_query(query),
               None, Some(agent_name), Some(TXT_QUERY_ID))

\* LFRAG_PHIDATA = 'PHIDATA_API_KEY='
LFRAG_PHIDATA ==
    <<"P","H","I","D","A","T","A","_","A","P","I","_","K","E","Y","=">>
\* LFRAG_GROQ = 'groq_api_key: '
LFRAG_GROQ ==
    <<"g","r","o","q","_","a","p","i","_","k","e","y",":"," ">>
\* LFRAG_OPENAI = 'OpenAI_Api_Key:'
LFRAG_OPENAI ==
    <<"O","p","e","n","A","I","_","A","p","i","_","K","e","y",":">>
\* LFRAG_API_KEY = 'Api-Key="'
LFRAG_API_KEY ==
    <<"A","p","i","-","K","e","y","=","\"">>
\* LFRAG_TOKEN = 'token ='
LFRAG_TOKEN ==
    <<"t","o","k","e","n"," ","=">>
\* LFRAG_SK = 'sk-'
LFRAG_SK ==
    <<"s","k","-">>
\* LFRAG_SK_KEY = 'SK-Abcdefghij0123456789'
LFRAG_SK_KEY ==
    <<"S","K","-","A","b","c","d","e","f","g","h","i","j","0","1","2","3","4","5","6","7","8","9">>
\* LFRAG_KEY20 = 'Abcdefghij_123456789'
LFRAG_KEY20 ==
    <<"A","b","c","d","e","f","g","h","i","j","_","1","2","3","4","5","6","7","8","9">>
\* LFRAG_KEY19 = 'abcdefghij012345678'
LFRAG_KEY19 ==
    <<"a","b","c","d","e","f","g","h","i","j","0","1","2","3","4","5","6","7","8">>
\* LFRAG_X = 'x'
LFRAG_X ==
    <<"x">>
\* LFRAG_SPACE = ' '
LFRAG_SPACE ==
    <<" ">>
---------------------------------------------------------------------------
(* The logging calls, each handled by a handler that setup_logging installed: *)
(* Handler.handle runs the filter on the record, then formats and writes it. *)

\* log texts are built from these pieces
LogFragments ==
    {LFRAG_PHIDATA, LFRAG_GROQ, LFRAG_OPENAI, LFRAG_API_KEY, LFRAG_TOKEN,
     LFRAG_SK, LFRAG_SK_KEY, LFRAG_KEY20, LFRAG_KEY19, LFRAG_X, LFRAG_SPACE}

\* at most this many pieces in one log text
MaxLogFrags == 2

LogTexts == {Concat(q) : q \in SeqsUpTo(LogFragments, MaxLogFrags)}

\* the context argument of log_error: omitted, or a one-entry dict
ContextArgs(text) ==
    {None,
     Some([key |-> KEY_STAGE, value |-> VAL_CONFIGURATION]),
     Some([key |-> KEY_QUERY, value |-> text])}

LogInit ==
    /\ log_text \in LogTexts
    /\ record = None
    /\ emitted = None
    /\ err_text = <<>> /\ call = [op |-> "none"] /\ result = None
    /\ CliIdle
    /\ PlayIdle
    /\ E2EIdle

\* Handler.handle(record): filter, then emit the formatted record
Handle(rec) ==
    LET filtered == Filter(rec) IN
    /\ record' = Some(filtered)
    /\ emitted' = Some(StructuredFormat(filtered))

\* logger.info(text)
LogInfo ==
    /\ call.op = "none"
    /\ call' = [op |-> "info", msg |-> log_text]
    /\ Handle(MakeRecord(TXT_LEVEL_INFO, log_text, None, None, None))
    /\ UNCHANGED <<log_text, err_text, result, cli_vars, play_vars, e2e_vars>>

\* log_query(logger, text, agent_name)
LogQuery ==
    /\ call.op = "none"
    /\ \E agent_name \in {NAME_FINANCIAL_AGENT} :
          /\ call' = [op |-> "log_query", query |-> log_text,
                      agent_name |-> agent_name]
          /\ Handle(log_query(log_text, agent_name))
    /\ UNCHANGED <<log_text, err_text, result, cli_vars, play_vars, e2e_vars>>

\* log_error(logger, error, context, agent_name) while error is being handled
LogError ==
    /\ call.op = "none"
    /\ \E cls \in {"ValueError", "ConfigurationError"},
          context \in ContextArgs(log_text),
          agent_name \in {Some(NAME_FINANCIAL_AGENT)} :
          LET error == BuiltinError(cls, log_text) IN
          /\ call' = [op |-> "log_error", error |-> error, context |-> context,
                      agent_name |-> agent_name]
          /\ Handle(log_error(error, context, agent_name))
    /\ UNCHANGED <<log_text, err_text, result, cli_vars, play_vars, e2e_vars>>

LogNext ==
    \/ LogInfo
    \/ LogQuery
    \/ LogError

LogSpec == LogInit /\ [][LogNext]_vars

---------------------------------------------------------------------------
(* Properties of the log redaction (checked under LogSpec) *)

\* some SENSITIVE_PATTERNS entry matches somewhere in text, case-insensitively
HasSensitiveMatch(text) ==
    \E n \in 1..Len(SENSITIVE_PATTERNS) : Search(SENSITIVE_PATTERNS[n], text, TRUE)

\* C5: after SensitiveDataFilter.filter the record's message contains no
\* substring matching any of the six SENSITIVE_PATTERNS (case-insensitively),
\* and a message that held a match holds the marker '[REDACTED_API_KEY]'.
C5_FilteredMessageClean ==
    ~IsNone(record) =>
        /\ ~HasSensitiveMatch(ValueOf(record).msg)
        /\ (call.op = "info" /\ HasSensitiveMatch(call.msg))
              => Contains(ValueOf(record).msg, REDACTED_API_KEY)

\* C5 witness: a message holding a lowercase env-var assignment whose value is
\* an sk- key went through the filter and now holds the marker
C5_Witness ==
    /\ call.op = "info"
    /\ Search("groq", call.msg, TRUE)
    /\ Search("sk", call.msg, TRUE)
    /\ ~IsNone(record)
    /\ Contains(ValueOf(record).msg, REDACTED_API_KEY)
    /\ ~HasSensitiveMatch(ValueOf(record).msg)

\* C6 as stated: the complete text emitted for a log_error record (formatted
\* message and appended traceback) contains no SENSITIVE_PATTERNS match.
C6_EmittedErrorClean ==
    call.op = "log_error" => ~HasSensitiveMatch(ValueOf(emitted))

---------------------------------------------------------------------------
(* config.py: load_config *)

\* PLACEHOLDER = 'your_'
PLACEHOLDER ==
    <<"y","o","u","r","_">>
\* MSG_ENV_NOT_FOUND = "Configuration file '.env' not found. Please create a .env file in the project root directory. You can use .env.example as a template."
MSG_ENV_NOT_FOUND ==
    <<"C","o","n","f","i","g","u","r","a","t","i","o","n"," ","f","i","l","e"," ","'",".","e","n","v","'"," ","n","o","t"," ","f","o","u","n","d","."," ","P","l","e","a","s","e"," ","c","r","e","a","t","e"," ","a"," ",".","e","n","v"," ","f","i","l","e"," ","i","n"," ","t","h","e"," ","p","r","o","j","e","c","t"," ","r","o","o","t"," ","d","i","r","e","c","t","o","r","y","."," ","Y","o","u"," ","c","a","n"," ","u","s","e"," ",".","e","n","v",".","e","x","a","m","p","l","e"," ","a","s"," ","a"," ","t","e","m","p","l","a","t","e",".">>
\* MSG_MISSING_KEYS = 'Missing or invalid required API keys: '
MSG_MISSING_KEYS ==
    <<"M","i","s","s","i","n","g"," ","o","r"," ","i","n","v","a","l","i","d"," ","r","e","q","u","i","r","e","d"," ","A","P","I"," ","k","e","y","s",":"," ">>
\* TXT_COMMA = ', '
TXT_COMMA ==
    <<","," ">>
\* TXT_PHIDATA_API_KEY = 'PHIDATA_API_KEY'
TXT_PHIDATA_API_KEY ==
    <<"P","H","I","D","A","T","A","_","A","P","I","_","K","E","Y">>
\* TXT_GROQ_API_KEY = 'GROQ_API_KEY'
TXT_GROQ_API_KEY ==
    <<"G","R","O","Q","_","A","P","I","_","K","E","Y">>
\* TXT_OPENAI_API_KEY = 'OPENAI_API_KEY'
TXT_OPENAI_API_KEY ==
    <<"O","P","E","N","A","I","_","A","P","I","_","K","E","Y">>
\* NOTE_PLACEHOLDERS = 'Make sure to replace placeholder values with your actual API keys'
NOTE_PLACEHOLDERS ==
    <<"M","a","k","e"," ","s","u","r","e"," ","t","o"," ","r","e","p","l","a","c","e"," ","p","l","a","c","e","h","o","l","d","e","r"," ","v","a","l","u","e","s"," ","w","i","t","h"," ","y","o","u","r"," ","a","c","t","u","a","l"," ","A","P","I"," ","k","e","y","s">>
\* STEP_COPY = 'Copy .env.example to .env'
STEP_COPY ==
    <<"C","o","p","y"," ",".","e","n","v",".","e","x","a","m","p","l","e"," ","t","o"," ",".","e","n","v">>
\* STEP_REPLACE = 'Replace placeholder values with your actual API keys'
STEP_REPLACE ==
    <<"R","e","p","l","a","c","e"," ","p","l","a","c","e","h","o","l","d","e","r"," ","v","a","l","u","e","s"," ","w","i","t","h"," ","y","o","u","r"," ","a","c","t","u","a","l"," ","A","P","I"," ","k","e","y","s">>
\* VAL_BLANK = '   '
VAL_BLANK ==
    <<" "," "," ">>
\* VAL_PLACEHOLDER = 'Your_api_key_here'
VAL_PLACEHOLDER ==
    <<"Y","o","u","r","_","a","p","i","_","k","e","y","_","h","e","r","e">>
\* VAL_KEY = 'gsk_live_1'
VAL_KEY ==
    <<"g","s","k","_","l","i","v","e","_","1">>
\* MSG_UNDECODABLE = 'invalid start byte'
MSG_UNDECODABLE ==
    <<"i","n","v","a","l","i","d"," ","s","t","a","r","t"," ","b","y","t","e">>

\* the test load_config and get_api_key apply to os.getenv(key):
\* not value or value.strip() == '' or 'your_' in value.lower()
InvalidKeyValue_case_sensitive(value) ==
    \/ IsNone(value)
    \/ ValueOf(value) = <<>>
    \/ StripIsEmpty(ValueOf(value))
    \/ Contains(ValueOf(value), PLACEHOLDER)
InvalidKeyValue(value) ==
    \/ IsNone(value)
    \/ ValueOf(value) = <<>>
    \/ StripIsEmpty(ValueOf(value))
    \/ Contains(Lower(ValueOf(value)), PLACEHOLDER)

\* environment variable names and the config keys they are stored under
required_keys ==
    <<[env_key |-> "PHIDATA_API_KEY", config_key |-> "phidata_api_key"],
      [env_key |-> "GROQ_API_KEY", config_key |-> "groq_api_key"]>>
optional_keys ==
    <<[env_key |-> "OPENAI_API_KEY", config_key |-> "openai_api_key"]>>

EnvKeyText(env_key) ==
    CASE env_key = "PHIDATA_API_KEY" -> TXT_PHIDATA_API_KEY
      [] env_key = "GROQ_API_KEY"    -> TXT_GROQ_API_KEY
      [] env_key = "OPENAI_API_KEY"  -> TXT_OPENAI_API_KEY

\* sep.join(names)
RECURSIVE Join(_, _)
Join(sep, names) ==
    IF names = <<>> THEN <<>>
    ELSE IF Len(names) = 1 THEN EnvKeyText(names[1])
    ELSE EnvKeyText(names[1]) \o sep \o Join(sep, Tail(names))

\* the environment variable names of the entries that fail / pass the test
MissingKeys(environ, keys) ==
    LET names == [i \in DOMAIN keys |-> keys[i].env_key]
        Bad(name) == InvalidKeyValue(environ[name])
    IN  SelectSeq(names, Bad)

\* the config dictionary: every required or optional key with a valid value
ConfigOf(environ) ==
    LET all == required_keys \o optional_keys
        valid == {i \in DOMAIN all : ~InvalidKeyValue(environ[all[i].env_key])}
    IN  [config_key \in {all[i].config_key : i \in valid} |->
            LET i == CHOOSE i \in valid : all[i].config_key = config_key
            IN  ValueOf(environ[all[i].env_key])]

\* load_config, for the .env file (missing, unreadable by load_dotenv, or
\* loaded) and the environment os.getenv reads after load_dotenv
load_config(dot_env) ==
    IF dot_env.file = "missing"
    THEN Raise(ConfigurationError(MSG_ENV_NOT_FOUND,
             Some([steps |-> <<STEP_COPY, STEP_REPLACE>>,
                   required_keys |-> <<"PHIDATA_API_KEY", "GROQ_API_KEY",
                                       "OPENAI_API_KEY">>])))
    ELSE IF dot_env.file = "unreadable"
    THEN Raise(BuiltinError("ValueError", MSG_UNDECODABLE))
    ELSE LET missing_keys == MissingKeys(dot_env.environ, required_keys) IN
         IF missing_keys # <<>>
         THEN Raise(ConfigurationError(
                  MSG_MISSING_KEYS \o Join(TXT_COMMA, missing_keys),
                  Some([missing_keys |-> missing_keys,
                        required_keys |-> <<"PHIDATA_API_KEY", "GROQ_API_KEY">>,
                        note |-> NOTE_PLACEHOLDERS])))
         ELSE Return(ConfigOf(dot_env.environ))

---------------------------------------------------------------------------
(* financial_agent.py: the command-line program *)

\* QUERY_AAPL = 'AAPL price?'
QUERY_AAPL ==
    <<"A","A","P","L"," ","p","r","i","c","e","?">>
\* QUERY_WITH_KEY = 'use sk-Abcdefghij0123456789'
QUERY_WITH_KEY ==
    <<"u","s","e"," ","s","k","-","A","b","c","d","e","f","g","h","i","j","0","1","2","3","4","5","6","7","8","9">>
\* SAMPLE_QUERY_1 = 'What is the current price of AAPL?'
SAMPLE_QUERY_1 ==
    <<"W","h","a","t"," ","i","s"," ","t","h","e"," ","c","u","r","r","e","n","t"," ","p","r","i","c","e"," ","o","f"," ","A","A","P","L","?">>
\* SAMPLE_QUERY_2 = 'Latest news about artificial intelligence'
SAMPLE_QUERY_2 ==
    <<"L","a","t","e","s","t"," ","n","e","w","s"," ","a","b","o","u","t"," ","a","r","t","i","f","i","c","i","a","l"," ","i","n","t","e","l","l","i","g","e","n","c","e">>
\* SAMPLE_QUERY_3 = 'Summarize analyst recommendations and latest news for NVIDIA'
SAMPLE_QUERY_3 ==
    <<"S","u","m","m","a","r","i","z","e"," ","a","n","a","l","y","s","t"," ","r","e","c","o","m","m","e","n","d","a","t","i","o","n","s"," ","a","n","d"," ","l","a","t","e","s","t"," ","n","e","w","s"," ","f","o","r"," ","N","V","I","D","I","A">>
\* MSG_RUN_CONNECTION = 'Connection refused'
MSG_RUN_CONNECTION ==
    <<"C","o","n","n","e","c","t","i","o","n"," ","r","e","f","u","s","e","d">>
\* MSG_RUN_VALIDATION = "Invalid ticker symbol: 'ZZZZ'"
MSG_RUN_VALIDATION ==
    <<"I","n","v","a","l","i","d"," ","t","i","c","k","e","r"," ","s","y","m","b","o","l",":"," ","'","Z","Z","Z","Z","'">>
\* MSG_PRINT_ENCODE = "'charmap' codec can't encode character"
MSG_PRINT_ENCODE ==
    <<"'","c","h","a","r","m","a","p","'"," ","c","o","d","e","c"," ","c","a","n","'","t"," ","e","n","c","o","d","e"," ","c","h","a","r","a","c","t","e","r">>

\* a line printed to stdout: the text of the print call and what it formats
Line(fmt) == [fmt |-> fmt, arg |-> <<>>]
LineWith(fmt, arg) == [fmt |-> fmt, arg |-> <<arg>>]
Printed(fmt) == \E i \in DOMAIN stdout : stdout[i].fmt = fmt

\* argparse: --agent is one of these, 'multi' when not given
AgentChoices == {"financial", "web", "multi"}

\* the agent objects, in the order the imports of financial_agent.py construct
\* them: multi_agent imports web_search_agent and financial_agent_module first
ImportOrder == <<"web_search_agent", "financial_agent", "multi_agent_system">>

agent_map ==
    [financial |-> [agent_name |-> NAME_FINANCIAL_AGENT, agent |-> "financial_agent"],
     web       |-> [agent_name |-> NAME_WEB_SEARCH_AGENT, agent |-> "web_search_agent"],
     multi     |-> [agent_name |-> NAME_MULTI_AGENT, agent |-> "multi_agent_system"]]

\* agent_map.get(agent_type, ('Multi-Agent System', multi_agent_system))
SelectAgent(agent_type) ==
    IF agent_type \in DOMAIN agent_map THEN agent_map[agent_type]
    ELSE agent_map["multi"]

\* what agent.run(query) can do, and whether printing the response works
RunOutcomes ==
    {Return("response"),
     Raise(ValidationError(MSG_RUN_VALIDATION, Some([field |-> "ticker"]))),
     Raise(AgentExecutionError(MSG_RUN_VALIDATION, None)),
     Raise(BuiltinError("ConnectionError", MSG_RUN_CONNECTION)),
     Raise(BuiltinError("Exception", MSG_RUN_VALIDATION))}
PrintError == BuiltinError("ValueError", MSG_PRINT_ENCODE)

\* the calls of agent.run that one execute_query makes, as they appear to the
\* agent: a retrying variant calls again after a failure
AgentRuns_retry(agent, query, run_outcome) ==
    IF run_outcome.kind = "raise"
    THEN <<[agent |-> agent, query |-> query, outcome |-> "raise"],
           [agent |-> agent, query |-> query, outcome |-> "raise"]>>
    ELSE <<[agent |-> agent, query |-> query, outcome |-> run_outcome.kind]>>
AgentRuns(agent, query, run_outcome) ==
    <<[agent |-> agent, query |-> query, outcome |-> run_outcome.kind]>>

\* the lines of an except branch of execute_query
ErrorLines(error_dict, with_details) ==
    <<LineWith("[-] Error: {}", error_dict.error),
      LineWith("Error Type: {}", error_dict.error_type)>>
    \o (IF with_details /\ DictTruthy(ValueOf(error_dict.details))
        THEN <<LineWith("Details: {}", error_dict.details)>> ELSE <<>>)

\* the except clause of execute_query that catches an exception of class cls
\* ("none": the exception leaves execute_query)
ExceptClause_custom_only(cls) ==
    IF IsInstance(cls, "FinancialAgentError") THEN "FinancialAgentError"
    ELSE "none"
ExceptClause(cls) ==
    IF IsInstance(cls, "FinancialAgentError") THEN "FinancialAgentError"
    ELSE IF IsInstance(cls, "Exception") THEN "Exception"
    ELSE "none"

\* execute_query(query, agent_type), for the outcome of agent.run and of the
\* prints of format_response: the runs made, the lines printed, the exception
\* raised inside the try block, the value returned and the exception that
\* left the function (the log file is not part of this state)
execute_query(query, agent_type, run_outcome, print_ok) ==
    LET selected == SelectAgent(agent_type)
        agent_name == selected.agent_name
        header == <<LineWith("[*] Using: {}", agent_name),
                    LineWith("[?] Query: {}", query)>>
        runs == AgentRuns(selected.agent, query, run_outcome)
        raised == IF run_outcome.kind = "raise" THEN Some(run_outcome.error)
                  ELSE IF ~print_ok THEN Some(PrintError) ELSE None
        tried == header \o (IF run_outcome.kind = "return"
                            THEN <<Line("[RESPONSE]:")>> ELSE <<>>)
    IN  IF IsNone(raised)
        THEN [runs |-> runs, lines |-> tried, raised |-> None,
              returned |-> TRUE, propagated |-> None]
        ELSE LET e == ValueOf(raised)
                 clause == ExceptClause(e.cls)
             IN  IF clause = "none"
                 THEN [runs |-> runs, lines |-> tried, raised |-> raised,
                       returned |-> FALSE, propagated |-> raised]
                 ELSE LET custom == clause = "FinancialAgentError"
                          error_dict ==
                              IF custom THEN to_dict(e)
                              ELSE to_dict(handle_agent_execution_error(e, agent_name))
                      IN  [runs |-> runs,
                           lines |-> tried \o ErrorLines(error_dict, custom),
                           raised |-> raised,
                           returned |-> FALSE, propagated |-> None]

\* the predefined queries of run_sample_queries
SampleQueries ==
    <<[query |-> SAMPLE_QUERY_1, agent_type |-> "financial"],
      [query |-> SAMPLE_QUERY_2, agent_type |-> "web"],
      [query |-> SAMPLE_QUERY_3, agent_type |-> "multi"]>>

\* `if args.query:` is false for a missing and for an empty --query
QueryTruthy(query) == ~IsNone(query) /\ ValueOf(query) # <<>>

\* the except branches of main around load_config: the lines printed and
\* where the process goes next
main_on_config_error_continue(error) ==
    LET custom == IsInstance(error.cls, "ConfigurationError")
        error_dict == IF custom THEN to_dict(error)
                      ELSE to_dict(handle_configuration_error(error))
    IN  [lines |-> <<LineWith("[-] Configuration Error: {}", error_dict.error)>>
                   \o (IF custom /\ DictTruthy(ValueOf(error_dict.details))
                       THEN <<LineWith("Details: {}", error_dict.details)>>
                       ELSE <<>>),
         pc |-> "dispatch", exit_status |-> None]
main_on_config_error(error) ==
    LET custom == IsInstance(error.cls, "ConfigurationError")
        error_dict == IF custom THEN to_dict(error)
                      ELSE to_dict(handle_configuration_error(error))
    IN  [lines |-> <<LineWith("[-] Configuration Error: {}", error_dict.error)>>
                   \o (IF custom /\ DictTruthy(ValueOf(error_dict.details))
                       THEN <<LineWith("Details: {}", error_dict.details)>>
                       ELSE <<>>),
         pc |-> "exited", exit_status |-> Some(1)]

\* os.environ after main stored the loaded keys
SetApiKeys(environ, cfg) ==
    [name \in DOMAIN environ |->
        CASE name = "PHIDATA_API_KEY" -> Some(cfg["phidata_api_key"])
          [] name = "PHI_API_KEY"     -> Some(cfg["phidata_api_key"])
          [] name = "GROQ_API_KEY"    -> Some(cfg["groq_api_key"])
          [] name = "OPENAI_API_KEY"  ->
                 IF "openai_api_key" \in DOMAIN cfg
                 THEN Some(cfg["openai_api_key"]) ELSE environ[name]
          [] OTHER -> environ[name]]

---------------------------------------------------------------------------
(* The command-line program, from the start of the interpreter to exit.    *)

\* --query: not given, empty, or a question
QueryArgs == {None, Some(<<>>), Some(QUERY_AAPL), Some(QUERY_WITH_KEY)}

EnvNames == {"PHIDATA_API_KEY", "GROQ_API_KEY", "OPENAI_API_KEY", "PHI_API_KEY"}

Environ(phidata, groq, openai) ==
    [name \in EnvNames |->
        CASE name = "PHIDATA_API_KEY" -> phidata
          [] name = "GROQ_API_KEY"    -> groq
          [] name = "OPENAI_API_KEY"  -> openai
          [] OTHER -> None]

\* the .env file is missing, cannot be decoded by load_dotenv, or was loaded
\* and left the keys unset, blank, a placeholder or a key
Envs ==
    {[file |-> file, environ |-> Environ(None, None, None)] :
        file \in {"missing", "unreadable"}}
    \cup {[file |-> "loaded", environ |-> Environ(phidata, groq, openai)] :
            phidata \in {None, Some(VAL_PLACEHOLDER), Some(VAL_KEY)},
            groq \in {Some(<<>>), Some(VAL_BLANK), Some(VAL_KEY)},
            openai \in {None, Some(VAL_PLACEHOLDER), Some(VAL_KEY)}}

CliInit ==
    /\ argv \in [query : QueryArgs, agent : AgentChoices]
    /\ env \in Envs
    /\ pc = "import"
    /\ constructed = <<>>
    /\ config = None
    /\ run_calls = <<>>
    /\ exec_log = <<>>
    /\ stdout = <<>>
    /\ exit_status = None
    /\ ErrIdle
    /\ LogIdle
    /\ PlayIdle
    /\ E2EIdle

\* the import statements at the top of financial_agent.py: each agent module
\* constructs its agent object when it is imported
ImportAgentModule ==
    /\ pc = "import"
    /\ constructed' = Append(constructed, ImportOrder[Len(constructed) + 1])
    /\ pc' = IF Len(constructed) + 1 = Len(ImportOrder) THEN "main" ELSE "import"
    /\ UNCHANGED <<argv, env, config, run_calls, exec_log, stdout, exit_status>>
    /\ UNCHANGED <<err_vars, log_vars, play_vars, e2e_vars>>

\* main, step 1: load_config and its except branches
MainLoadConfig ==
    /\ pc = "main"
    /\ LET outcome == load_config(env) IN
       /\ config' = Some(outcome)
       /\ IF outcome.kind = "return"
          THEN /\ stdout' = stdout \o <<Line("[*] Loading configuration..."),
                                        Line("[+] Configuration loaded successfully")>>
               /\ env' = [env EXCEPT !.environ = SetApiKeys(@, outcome.value)]
               /\ pc' = "dispatch"
               /\ UNCHANGED exit_status
          ELSE LET handled == main_on_config_error(outcome.error) IN
               /\ stdout' = stdout \o <<Line("[*] Loading configuration...")>>
                                   \o handled.lines
               /\ pc' = handled.pc
               /\ exit_status' = handled.exit_status
               /\ UNCHANGED env
    /\ UNCHANGED <<argv, constructed, run_calls, exec_log>>
    /\ UNCHANGED <<err_vars, log_vars, play_vars, e2e_vars>>

\* main, step 2: the lines that announce the agents
InitLines ==
    <<Line("[*] Initializing agents..."), Line("  - Web Search Agent: Ready"),
      Line("  - Financial Agent: Ready"), Line("  - Multi-Agent System: Ready")>>

\* main, step 3 with a query: execute_query(args.query, args.agent), then the
\* verdict and the exit status (an exception that leaves execute_query ends
\* the process with a traceback and status 1)
MainCustomQuery ==
    /\ pc = "dispatch"
    /\ QueryTruthy(argv.query)
    /\ \E run_outcome \in RunOutcomes, print_ok \in BOOLEAN :
         LET done == execute_query(ValueOf(argv.query), argv.agent,
                                   run_outcome, print_ok)
         IN  /\ run_calls' = run_calls \o done.runs
             /\ exec_log' = Append(exec_log,
                                [query |-> ValueOf(argv.query),
                                 agent_type |-> argv.agent,
                                 lines |-> done.lines,
                                 raised |-> done.raised,
                                 returned |-> done.returned,
                                 propagated |-> done.propagated])
             /\ stdout' = stdout \o InitLines
                            \o <<Line("CUSTOM QUERY EXECUTION")>> \o done.lines
                            \o (IF ~IsNone(done.propagated) THEN <<>>
                                ELSE IF done.returned
                                THEN <<Line("[+] Query completed successfully!")>>
                                ELSE <<Line("[-] Query failed!")>>)
             /\ exit_status' = IF IsNone(done.propagated) /\ done.returned
                               THEN Some(0) ELSE Some(1)
    /\ pc' = "exited"
    /\ UNCHANGED <<argv, constructed, env, config>>
    /\ UNCHANGED <<err_vars, log_vars, play_vars, e2e_vars>>

\* main, step 3 without a query: run_sample_queries, one execute_query at a
\* time; its return value is not looked at
RunSampleQuery ==
    /\ pc \in {"dispatch", "sample2", "sample3"}
    /\ pc = "dispatch" => ~QueryTruthy(argv.query)
    /\ LET n == CASE pc = "dispatch" -> 1 [] pc = "sample2" -> 2 [] pc = "sample3" -> 3
           sample == SampleQueries[n]
       IN  /\ \E run_outcome \in RunOutcomes, print_ok \in BOOLEAN :
                LET done == execute_query(sample.query, sample.agent_type,
                                          run_outcome, print_ok)
                IN  /\ run_calls' = run_calls \o done.runs
                    /\ exec_log' = Append(exec_log,
                                       [query |-> sample.query,
                                        agent_type |-> sample.agent_type,
                                        lines |-> done.lines,
                                        raised |-> done.raised,
                                        returned |-> done.returned,
                                        propagated |-> done.propagated])
                    /\ stdout' = stdout
                         \o (IF n = 1
                             THEN InitLines \o <<Line("SAMPLE QUERY EXECUTION")>>
                             ELSE <<>>)
                         \o <<LineWith("[{}] Query {}", n)>> \o done.lines
                         \o (IF n = Len(SampleQueries) /\ IsNone(done.propagated)
                             THEN <<Line("[+] Sample queries completed!")>>
                             ELSE <<>>)
                    \* an exception that leaves execute_query ends the process
                    /\ pc' = IF ~IsNone(done.propagated) THEN "exited"
                             ELSE CASE n = 1 -> "sample2" [] n = 2 -> "sample3"
                                    [] n = 3 -> "exited"
                    /\ exit_status' = IF ~IsNone(done.propagated) THEN Some(1)
                                      ELSE IF n = Len(SampleQueries) THEN Some(0)
                                      ELSE exit_status
    /\ UNCHANGED <<argv, constructed, env, config>>
    /\ UNCHANGED <<err_vars, log_vars, play_vars, e2e_vars>>

CliNext ==
    \/ ImportAgentModule
    \/ MainLoadConfig
    \/ MainCustomQuery
    \/ RunSampleQuery

CliSpec == CliInit /\ [][CliNext]_vars

---------------------------------------------------------------------------
(* Claims about the command-line program *)

ConfigLoaded == ~IsNone(config) /\ ValueOf(config).kind = "return"
ConfigRaised == ~IsNone(config) /\ ValueOf(config).kind = "raise"

\* C7: the order of events is load config, then construct the agent objects,
\* then forward the query: no agent object exists before load_config has
\* returned successfully, and no query is forwarded before all three exist.
C7_ConfigBeforeAgents ==
    /\ constructed # <<>> => ConfigLoaded
    /\ run_calls # <<>> => Len(constructed) = Len(ImportOrder) /\ ConfigLoaded

\* C8: when load_config raises, a ConfigurationError or anything else, the
\* process prints a configuration error, exits with status 1 and never calls
\* an agent's run; a run happens only after load_config returned.
C8_ConfigFailureExits ==
    /\ ConfigRaised =>
         /\ pc = "exited"
         /\ exit_status = Some(1)
         /\ Printed("[-] Configuration Error: {}")
         /\ run_calls = <<>>
    /\ run_calls # <<>> => ConfigLoaded

\* load_dotenv raised something that is not a ConfigurationError and the
\* process has exited with status 1
C8_Witness ==
    /\ ConfigRaised
    /\ ~IsInstance(ValueOf(config).error.cls, "ConfigurationError")
    /\ exit_status = Some(1)

\* C9: every execute_query call makes exactly one agent.run call, on the agent
\* its agent_type selects and with the query string it was given, unchanged;
\* a run that raises is not tried again and the call reports failure.
C9_RunOncePerQuery ==
    /\ Len(run_calls) = Len(exec_log)
    /\ \A i \in DOMAIN exec_log :
         LET expected == CASE exec_log[i].agent_type = "financial" -> "financial_agent"
                           [] exec_log[i].agent_type = "web" -> "web_search_agent"
                           [] exec_log[i].agent_type = "multi" -> "multi_agent_system"
         IN  /\ i \in DOMAIN run_calls
             /\ run_calls[i].agent = expected
             /\ run_calls[i].query = exec_log[i].query
             /\ run_calls[i].outcome = "raise" => ~exec_log[i].returned
    /\ QueryTruthy(argv.query) =>
         \A i \in DOMAIN run_calls : run_calls[i].query = ValueOf(argv.query)

\* a query holding a key-like string, which the logger would redact, reached
\* the agent and the run raised
C9_Witness ==
    /\ Len(run_calls) = 1
    /\ run_calls[1].query = QUERY_WITH_KEY
    /\ run_calls[1].outcome = "raise"
    /\ exec_log[1].returned = FALSE

\* C10: with --query given and the configuration loaded, the process exits
\* with status 0 exactly when the selected agent ran the query and its response
\* was printed without an exception; otherwise it prints '[-] Query failed!'
\* and exits with status 1.
C10_ExitStatusByQuery ==
    (pc = "exited" /\ ~IsNone(argv.query) /\ ConfigLoaded) =>
        LET completed == \E i \in DOMAIN exec_log :
                            /\ exec_log[i].query = ValueOf(argv.query)
                            /\ exec_log[i].agent_type = argv.agent
                            /\ exec_log[i].returned
        IN  /\ exit_status = Some(0) <=> completed
            /\ ~completed => Printed("[-] Query failed!") /\ exit_status = Some(1)

\* the lines of one execute_query call hold a print of this text
CallPrinted(lines, fmt) == \E k \in DOMAIN lines : lines[k].fmt = fmt

\* C11: no exception (a subclass of Exception) raised by agent.run or by the
\* printing of the response leaves execute_query: the call prints an error
\* message and an error type and returns False.
C11_ExecuteQueryCatchesAll ==
    \A i \in DOMAIN exec_log :
        /\ IsNone(exec_log[i].propagated)
        /\ ~IsNone(exec_log[i].raised) =>
             /\ exec_log[i].returned = FALSE
             /\ CallPrinted(exec_log[i].lines, "[-] Error: {}")
             /\ CallPrinted(exec_log[i].lines, "Error Type: {}")

\* a run raised a library exception naming an invalid ticker; the call printed
\* the invalid-ticker message and returned False
C11_Witness ==
    \E i \in DOMAIN exec_log :
        /\ ~IsNone(exec_log[i].raised)
        /\ ValueOf(exec_log[i].raised).cls = "Exception"
        /\ exec_log[i].returned = FALSE
        /\ IsNone(exec_log[i].propagated)
        /\ \E k \in DOMAIN exec_log[i].lines :
              /\ exec_log[i].lines[k].fmt = "[-] Error: {}"
              /\ exec_log[i].lines[k].arg = <<MSG_INVALID_TICKER>>

---------------------------------------------------------------------------
(* Claims about load_config (checked under CliSpec, where main calls it)   *)

\* C12: load_config raises FileNotFoundError when the .env file does not
\* exist, and ValueError when a required API key is missing.
C12_RaisesBuiltinErrors ==
    ConfigRaised =>
        /\ env.file = "missing" =>
              IsInstance(ValueOf(config).error.cls, "FileNotFoundError")
        /\ env.file = "loaded" =>
              IsInstance(ValueOf(config).error.cls, "ValueError")

\* C13: whenever load_config returns, the dictionary holds 'phidata_api_key',
\* 'groq_api_key' and 'openai_api_key'.
C13_ConfigHasAllKeys ==
    ConfigLoaded =>
        {"phidata_api_key", "groq_api_key", "openai_api_key"}
            \subseteq DOMAIN ValueOf(config).value

\* an environment value that is unset, empty, whitespace-only, or holds
\* 'your_' in any letter case
Offending(value) ==
    \/ value = None
    \/ LET s == ValueOf(value) IN
         \/ \A k \in 1..Len(s) : s[k] \in {" ", "\t", "\n", "\r"}
         \/ \E k \in 1..(Len(s) - 4) :
               /\ s[k] \in {"y", "Y"}
               /\ s[k + 1] \in {"o", "O"}
               /\ s[k + 2] \in {"u", "U"}
               /\ s[k + 3] \in {"r", "R"}
               /\ s[k + 4] = "_"

---------------------------------------------------------------------------
(* playground.py: validate_api_keys and the module body *)

\* MSG_PLAY_MISSING_KEYS = 'Missing required API keys for FastAPI startup'
MSG_PLAY_MISSING_KEYS ==
    <<"M","i","s","s","i","n","g"," ","r","e","q","u","i","r","e","d"," ","A","P","I"," ","k","e","y","s"," ","f","o","r"," ","F","a","s","t","A","P","I"," ","s","t","a","r","t","u","p">>
\* STEP_CREATE_ENV = 'Create a .env file in the project root (use .env.example as template)'
STEP_CREATE_ENV ==
    <<"C","r","e","a","t","e"," ","a"," ",".","e","n","v"," ","f","i","l","e"," ","i","n"," ","t","h","e"," ","p","r","o","j","e","c","t"," ","r","o","o","t"," ","(","u","s","e"," ",".","e","n","v",".","e","x","a","m","p","l","e"," ","a","s"," ","t","e","m","p","l","a","t","e",")">>
\* STEP_ADD_KEYS = 'Add your actual API keys (replace placeholder values)'
STEP_ADD_KEYS ==
    <<"A","d","d"," ","y","o","u","r"," ","a","c","t","u","a","l"," ","A","P","I"," ","k","e","y","s"," ","(","r","e","p","l","a","c","e"," ","p","l","a","c","e","h","o","l","d","e","r"," ","v","a","l","u","e","s",")">>
\* STEP_RESTART = 'Restart the server'
STEP_RESTART ==
    <<"R","e","s","t","a","r","t"," ","t","h","e"," ","s","e","r","v","e","r">>

\* the test validate_api_keys applies to os.getenv(key):
\* not value or value.strip() == '' or 'your_' in value.lower()
KeyMissing(value) ==
    \/ IsNone(value)
    \/ ValueOf(value) = <<>>
    \/ StripIsEmpty(ValueOf(value))
    \/ Contains(Lower(ValueOf(value)), PLACEHOLDER)

\* validate_api_keys(), for the environment os.getenv reads
validate_api_keys(environ) ==
    LET playground_required_keys == <<"PHIDATA_API_KEY", "GROQ_API_KEY">>
        Missing(key) == KeyMissing(environ[key])
        missing_keys == SelectSeq(playground_required_keys, Missing)
    IN  IF missing_keys # <<>>
        THEN Raise(ConfigurationError(MSG_PLAY_MISSING_KEYS,
                 Some([missing_keys |-> missing_keys,
                       required_keys |-> playground_required_keys,
                       steps |-> <<STEP_CREATE_ENV, STEP_ADD_KEYS, STEP_RESTART>>])))
        ELSE Return(None)

\* the except branch around validate_api_keys(): it logs and raises again, so
\* the module body stops; the variant goes on to create the app
on_validation_error_continue(error) ==
    [pc |-> "create_app", startup_error |-> None]
on_validation_error(error) ==
    [pc |-> "failed", startup_error |-> Some(error)]

\* `if phi_api_key:` on a value of os.getenv
EnvTruthy(value) == ~IsNone(value) /\ ValueOf(value) # <<>>

\* the agent modules playground.py imports, in order
PlayImportOrder == <<"web_search_agent", "financial_agent">>

PlayInit ==
    /\ env \in Envs
    /\ module_name \in {"__main__", "playground"}
    /\ pc = "import"
    /\ constructed = <<>>
    /\ app = None
    /\ served = FALSE
    /\ startup_error = None
    /\ exit_status = None
    /\ argv = None /\ config = None
    /\ run_calls = <<>> /\ exec_log = <<>> /\ stdout = <<>>
    /\ ErrIdle
    /\ LogIdle
    /\ E2EIdle

\* the imports at the top of playground.py construct the two agents
PlayImportAgentModule ==
    /\ module_name # "none"
    /\ pc = "import"
    /\ constructed' = Append(constructed, PlayImportOrder[Len(constructed) + 1])
    /\ pc' = IF Len(constructed) + 1 = Len(PlayImportOrder)
             THEN "load_dotenv" ELSE "import"
    /\ UNCHANGED <<argv, env, config, run_calls, exec_log, stdout, exit_status>>
    /\ UNCHANGED <<module_name, app, served, startup_error>>
    /\ UNCHANGED <<err_vars, log_vars, e2e_vars>>

\* load_dotenv(): a missing .env file is skipped, one that cannot be decoded
\* raises and ends the module body
PlayLoadDotenv ==
    /\ pc = "load_dotenv"
    /\ IF env.file = "unreadable"
       THEN /\ startup_error' = Some(BuiltinError("ValueError", MSG_UNDECODABLE))
            /\ pc' = "failed"
            /\ exit_status' = IF module_name = "__main__" THEN Some(1) ELSE None
       ELSE /\ pc' = "validate"
            /\ UNCHANGED <<startup_error, exit_status>>
    /\ UNCHANGED <<argv, constructed, env, config, run_calls, exec_log, stdout>>
    /\ UNCHANGED <<module_name, app, served>>
    /\ UNCHANGED <<err_vars, log_vars, e2e_vars>>

\* the try block around validate_api_keys()
PlayValidate ==
    /\ pc = "validate"
    /\ LET outcome == validate_api_keys(env.environ) IN
       IF outcome.kind = "raise"
       THEN LET handled == on_validation_error(outcome.error) IN
            /\ pc' = handled.pc
            /\ startup_error' = handled.startup_error
            /\ exit_status' = IF module_name = "__main__" /\ handled.pc = "failed"
                              THEN Some(1) ELSE None
       ELSE /\ pc' = "create_app"
            /\ UNCHANGED <<startup_error, exit_status>>
    /\ UNCHANGED <<argv, constructed, env, config, run_calls, exec_log, stdout>>
    /\ UNCHANGED <<module_name, app, served>>
    /\ UNCHANGED <<err_vars, log_vars, e2e_vars>>

\* the keys are copied into os.environ and the Playground app is created
PlayCreateApp ==
    /\ pc = "create_app"
    /\ LET phi_api_key == env.environ["PHIDATA_API_KEY"]
           openai_api_key == env.environ["OPENAI_API_KEY"]
       IN  env' = [env EXCEPT !.environ =
                     [name \in DOMAIN @ |->
                        IF name = "PHI_API_KEY" /\ EnvTruthy(phi_api_key)
                        THEN phi_api_key
                        ELSE IF name = "OPENAI_API_KEY" /\ EnvTruthy(openai_api_key)
                        THEN openai_api_key
                        ELSE @[name]]]
    /\ app' = Some([agents |-> <<"financial_agent", "web_search_agent">>])
    /\ pc' = IF module_name = "__main__" THEN "serve" ELSE "imported"
    /\ UNCHANGED <<argv, constructed, config, run_calls, exec_log, stdout, exit_status>>
    /\ UNCHANGED <<module_name, served, startup_error>>
    /\ UNCHANGED <<err_vars, log_vars, e2e_vars>>

\* `if __name__ == "__main__":` serve_playground_app("playground:app")
PlayServe ==
    /\ pc = "serve"
    /\ served' = TRUE
    /\ pc' = "serving"
    /\ UNCHANGED <<argv, constructed, env, config, run_calls, exec_log, stdout, exit_status>>
    /\ UNCHANGED <<module_name, app, startup_error>>
    /\ UNCHANGED <<err_vars, log_vars, e2e_vars>>

PlayNext ==
    \/ PlayImportAgentModule
    \/ PlayLoadDotenv
    \/ PlayValidate
    \/ PlayCreateApp
    \/ PlayServe

PlaySpec == PlayInit /\ [][PlayNext]_vars

\* C16: the Playground app is created, and served, only after
\* validate_api_keys passed: when PHIDATA_API_KEY or GROQ_API_KEY is unset,
\* blank or holds 'your_' in any letter case, validate_api_keys raises a
\* ConfigurationError whose details.missing_keys lists exactly the invalid
\* keys, and the app is never created or served.
C16_AppOnlyAfterValidation ==
    LET phidata == Offending(env.environ["PHIDATA_API_KEY"])
        groq == Offending(env.environ["GROQ_API_KEY"])
        expected == (IF phidata THEN <<"PHIDATA_API_KEY">> ELSE <<>>)
                    \o (IF groq THEN <<"GROQ_API_KEY">> ELSE <<>>)
    IN  /\ served => ~IsNone(app)
        /\ ~IsNone(app) => ~phidata /\ ~groq /\ IsNone(startup_error)
        /\ (phidata \/ groq) =>
             /\ pc \in {"import", "load_dotenv", "validate", "failed"}
             /\ IsNone(app) /\ ~served
             /\ (pc = "failed" /\ env.file # "unreadable") =>
                  /\ ValueOf(startup_error).cls = "ConfigurationError"
                  /\ DetailsOf(ValueOf(startup_error)).missing_keys = expected
        /\ (~phidata /\ ~groq /\ env.file # "unreadable") => pc # "failed"

\* PHIDATA_API_KEY is a key and GROQ_API_KEY is blank: the module body ended
\* with a ConfigurationError naming GROQ_API_KEY only, and there is no app
C16_Witness ==
    /\ pc = "failed"
    /\ env.environ["PHIDATA_API_KEY"] = Some(VAL_KEY)
    /\ env.environ["GROQ_API_KEY"] = Some(VAL_BLANK)
    /\ ValueOf(startup_error).cls = "ConfigurationError"
    /\ DetailsOf(ValueOf(startup_error)).missing_keys = <<"GROQ_API_KEY">>
    /\ IsNone(app)
    /\ ~served

---------------------------------------------------------------------------
(* test_end_to_end.py: EndToEndValidator *)

\* KW_AAPL = 'aapl'
KW_AAPL ==
    <<"a","a","p","l">>
\* KW_PRICE = 'price'
KW_PRICE ==
    <<"p","r","i","c","e">>
\* KW_DOLLAR = '$'
KW_DOLLAR ==
    <<"$">>
\* KW_ARTIFICIAL_INTELLIGENCE = 'artificial intelligence'
KW_ARTIFICIAL_INTELLIGENCE ==
    <<"a","r","t","i","f","i","c","i","a","l"," ","i","n","t","e","l","l","i","g","e","n","c","e">>
\* KW_AI = 'ai'
KW_AI ==
    <<"a","i">>
\* KW_NVIDIA = 'nvidia'
KW_NVIDIA ==
    <<"n","v","i","d","i","a">>
\* KW_NVDA = 'nvda'
KW_NVDA ==
    <<"n","v","d","a">>
\* KW_ERROR = 'error'
KW_ERROR ==
    <<"e","r","r","o","r">>
\* KW_INVALID = 'invalid'
KW_INVALID ==
    <<"i","n","v","a","l","i","d">>
\* TXT_OUT_AAPL = 'AAPL price: $189'
TXT_OUT_AAPL ==
    <<"A","A","P","L"," ","p","r","i","c","e",":"," ","$","1","8","9">>
\* TXT_OUT_AI = 'Latest AI news'
TXT_OUT_AI ==
    <<"L","a","t","e","s","t"," ","A","I"," ","n","e","w","s">>
\* TXT_OUT_NVIDIA = 'NVIDIA (NVDA): Buy'
TXT_OUT_NVIDIA ==
    <<"N","V","I","D","I","A"," ","(","N","V","D","A",")",":"," ","B","u","y">>
\* TXT_OUT_PLAIN = 'No data'
TXT_OUT_PLAIN ==
    <<"N","o"," ","d","a","t","a">>
\* TXT_ERR_INVALID = 'Error: Invalid ticker'
TXT_ERR_INVALID ==
    <<"E","r","r","o","r",":"," ","I","n","v","a","l","i","d"," ","t","i","c","k","e","r">>

\* TestResult(test_name, passed, message)
TestResult(test_name, passed, message) ==
    [test_name |-> test_name, passed |-> passed, message |-> message]

NAME_TEST_FINANCIAL == "Local Script - Financial Query (AAPL price)"
NAME_TEST_WEB == "Local Script - Web Search Query (AI news)"
NAME_TEST_COMBINED == "Local Script - Multi-Agent Query (NVIDIA analysis)"
NAME_TEST_INVALID == "Local Script - Invalid Ticker Error Handling"
NAME_TEST_FORMATTING == "Response Formatting Validation"

\* the files check_prerequisites looks for
required_files ==
    <<"financial_agent.py", "playground.py", "config.py", "multi_agent.py",
      "web_search_agent.py", "financial_agent_module.py">>

\* check_prerequisites(), for the .env flag of __init__ and the files on disk
check_prerequisites(env_file_exists, files) ==
    LET IsMissing(f) == f \notin files
        missing_files == SelectSeq(required_files, IsMissing)
    IN  IF ~env_file_exists THEN FALSE
        ELSE IF missing_files # <<>> THEN FALSE
        ELSE TRUE

\* what subprocess.run(..., timeout=60) can do: complete with a return code
\* and captured texts, time out, or raise
SubprocessTexts == {<<>>, TXT_OUT_AAPL, TXT_OUT_AI, TXT_OUT_NVIDIA, TXT_OUT_PLAIN}
SubprocessOutcomes ==
    {[kind |-> "completed", returncode |-> rc, stdout |-> out, stderr |-> err] :
        rc \in {0, 1}, out \in SubprocessTexts, err \in {<<>>, TXT_ERR_INVALID}}
    \cup {[kind |-> "timeout"], [kind |-> "exception", text |-> "No such file"]}

\* the except clauses every subprocess test ends with
SubprocessFailure(test_name, outcome) ==
    IF outcome.kind = "timeout"
    THEN TestResult(test_name, FALSE, <<"Query timed out after 60 seconds">>)
    ELSE TestResult(test_name, FALSE, <<"Exception occurred: ", outcome.text>>)

\* the shape shared by the three query tests: return code 0 and the expected
\* words in the lowercased output
QueryTest(test_name, outcome, expected, success_message) ==
    IF outcome.kind # "completed" THEN SubprocessFailure(test_name, outcome)
    ELSE IF outcome.returncode = 0
    THEN IF expected
         THEN TestResult(test_name, TRUE, <<success_message>>)
         ELSE TestResult(test_name, FALSE,
                         <<"Query executed but response format unexpected">>)
    ELSE TestResult(test_name, FALSE,
                    <<"Query failed with exit code ", outcome.returncode>>)

test_local_financial_query(outcome) ==
    LET output == Lower(outcome.stdout) IN
    QueryTest(NAME_TEST_FINANCIAL, outcome,
              Contains(output, KW_AAPL)
                /\ (Contains(output, KW_PRICE) \/ Contains(output, KW_DOLLAR)),
              "Successfully retrieved AAPL stock price")

test_local_web_search_query(outcome) ==
    LET output == Lower(outcome.stdout) IN
    QueryTest(NAME_TEST_WEB, outcome,
              Contains(output, KW_ARTIFICIAL_INTELLIGENCE) \/ Contains(output, KW_AI),
              "Successfully performed web search")

test_local_combined_query(outcome) ==
    LET output == Lower(outcome.stdout) IN
    QueryTest(NAME_TEST_COMBINED, outcome,
              Contains(output, KW_NVIDIA) \/ Contains(output, KW_NVDA),
              "Successfully executed multi-agent query")

test_local_invalid_ticker(outcome) ==
    IF outcome.kind # "completed"
    THEN SubprocessFailure(NAME_TEST_INVALID, outcome)
    ELSE LET output == Lower(outcome.stdout) \o Lower(outcome.stderr) IN
         IF \/ Contains(output, KW_ERROR)
            \/ Contains(output, KW_INVALID)
            \/ Contains(output, KW_NOT_FOUND)
         THEN TestResult(NAME_TEST_INVALID, TRUE,
                         <<"Properly handled invalid ticker with error message">>)
         ELSE IF outcome.returncode = 0
         THEN TestResult(NAME_TEST_INVALID, TRUE,
                  <<"Query completed (agent may have handled invalid ticker gracefully)">>)
         ELSE TestResult(NAME_TEST_INVALID, FALSE,
                         <<"Unexpected response for invalid ticker">>)

\* test_response_formatting(), for self.results; the variant asks for more
\* than three passed tests
test_response_formatting_more_than_three(self_results) ==
    LET Passed(r) == r.passed
        passed_tests == SelectSeq(self_results, Passed)
    IN  IF Len(passed_tests) > 3
        THEN TestResult(NAME_TEST_FORMATTING, TRUE,
                 <<Len(passed_tests), " queries returned properly formatted responses">>)
        ELSE TestResult(NAME_TEST_FORMATTING, FALSE,
                 <<"Only ", Len(passed_tests), " queries succeeded, expected at least 3">>)
test_response_formatting(self_results) ==
    LET Passed(r) == r.passed
        passed_tests == SelectSeq(self_results, Passed)
    IN  IF Len(passed_tests) >= 3
        THEN TestResult(NAME_TEST_FORMATTING, TRUE,
                 <<Len(passed_tests), " queries returned properly formatted responses">>)
        ELSE TestResult(NAME_TEST_FORMATTING, FALSE,
                 <<"Only ", Len(passed_tests), " queries succeeded, expected at least 3">>)

\* all(r.passed for r in self.results)
AllPassed(self_results) == \A i \in 1..Len(self_results) : self_results[i].passed

\* the directory contents the validator is started in
FileSets ==
    LET all == {required_files[i] : i \in 1..Len(required_files)} IN
    {all, all \ {"playground.py"}, all \ {"config.py", "multi_agent.py"}}

E2EInit ==
    /\ prereq \in {Some([env_file_exists |-> e, files |-> f]) :
                      e \in BOOLEAN, f \in FileSets}
    /\ results = <<>>
    /\ run_returned = None
    /\ pc = "check_prerequisites"
    /\ exit_status = None
    /\ argv = None /\ config = None /\ constructed = <<>>
    /\ env = None
    /\ run_calls = <<>> /\ exec_log = <<>> /\ stdout = <<>>
    /\ ErrIdle
    /\ LogIdle
    /\ PlayIdle

\* run(): the prerequisites check and the early return False
E2ECheckPrerequisites ==
    /\ pc = "check_prerequisites"
    /\ IF check_prerequisites(ValueOf(prereq).env_file_exists, ValueOf(prereq).files)
       THEN /\ pc' = "test_1"
            /\ UNCHANGED run_returned
       ELSE /\ pc' = "returned"
            /\ run_returned' = Some(FALSE)
    /\ UNCHANGED <<prereq, results>>
    /\ UNCHANGED <<argv, constructed, env, config, run_calls, exec_log, stdout, exit_status>>
    /\ UNCHANGED <<err_vars, log_vars, play_vars>>

\* run_local_tests(), test 1/5
TestLocalFinancialQuery ==
    /\ pc = "test_1"
    /\ \E outcome \in SubprocessOutcomes :
         results' = Append(results, test_local_financial_query(outcome))
    /\ pc' = "test_2"
    /\ UNCHANGED <<prereq, run_returned>>
    /\ UNCHANGED <<argv, constructed, env, config, run_calls, exec_log, stdout, exit_status>>
    /\ UNCHANGED <<err_vars, log_vars, play_vars>>

\* run_local_tests(), test 2/5
TestLocalWebSearchQuery ==
    /\ pc = "test_2"
    /\ \E outcome \in SubprocessOutcomes :
         results' = Append(results, test_local_web_search_query(outcome))
    /\ pc' = "test_3"
    /\ UNCHANGED <<prereq, run_returned>>
    /\ UNCHANGED <<argv, constructed, env, config, run_calls, exec_log, stdout, exit_status>>
    /\ UNCHANGED <<err_vars, log_vars, play_vars>>

\* run_local_tests(), test 3/5
TestLocalCombinedQuery ==
    /\ pc = "test_3"
    /\ \E outcome \in SubprocessOutcomes :
         results' = Append(results, test_local_combined_query(outcome))
    /\ pc' = "test_4"
    /\ UNCHANGED <<prereq, run_returned>>
    /\ UNCHANGED <<argv, constructed, env, config, run_calls, exec_log, stdout, exit_status>>
    /\ UNCHANGED <<err_vars, log_vars, play_vars>>

\* run_local_tests(), test 4/5
TestLocalInvalidTicker ==
    /\ pc = "test_4"
    /\ \E outcome \in SubprocessOutcomes :
         results' = Append(results, test_local_invalid_ticker(outcome))
    /\ pc' = "test_5"
    /\ UNCHANGED <<prereq, run_returned>>
    /\ UNCHANGED <<argv, constructed, env, config, run_calls, exec_log, stdout, exit_status>>
    /\ UNCHANGED <<err_vars, log_vars, play_vars>>

\* run_local_tests(), test 5/5
TestResponseFormatting ==
    /\ pc = "test_5"
    /\ results' = Append(results, test_response_formatting(results))
    /\ pc' = "summary"
    /\ UNCHANGED <<prereq, run_returned>>
    /\ UNCHANGED <<argv, constructed, env, config, run_calls, exec_log, stdout, exit_status>>
    /\ UNCHANGED <<err_vars, log_vars, play_vars>>

\* run(): print_summary() and return all(r.passed for r in self.results)
E2EFinishRun ==
    /\ pc = "summary"
    /\ run_returned' = Some(AllPassed(results))
    /\ pc' = "returned"
    /\ UNCHANGED <<prereq, results>>
    /\ UNCHANGED <<argv, constructed, env, config, run_calls, exec_log, stdout, exit_status>>
    /\ UNCHANGED <<err_vars, log_vars, play_vars>>

\* main(): sys.exit(0 if success else 1)
E2EMainExit ==
    /\ pc = "returned"
    /\ exit_status' = Some(IF ValueOf(run_returned) THEN 0 ELSE 1)
    /\ pc' = "exited"
    /\ UNCHANGED <<prereq, results, run_returned>>
    /\ UNCHANGED <<argv, constructed, env, config, run_calls, exec_log, stdout>>
    /\ UNCHANGED <<err_vars, log_vars, play_vars>>

E2ENext ==
    \/ E2ECheckPrerequisites
    \/ TestLocalFinancialQuery
    \/ TestLocalWebSearchQuery
    \/ TestLocalCombinedQuery
    \/ TestLocalInvalidTicker
    \/ TestResponseFormatting
    \/ E2EFinishRun
    \/ E2EMainExit

E2ESpec == E2EInit /\ [][E2ENext]_vars

\* the position of run_local_tests before test k
TestOrder_pc(k) ==
    CASE k = 1 -> "test_1" [] k = 2 -> "test_2" [] k = 3 -> "test_3"
      [] k = 4 -> "test_4" [] OTHER -> "test_5"

\* the order run_local_tests appends results in
TestOrder ==
    <<NAME_TEST_FINANCIAL, NAME_TEST_WEB, NAME_TEST_COMBINED, NAME_TEST_INVALID,
      NAME_TEST_FORMATTING>>

\* C20: run runs no test and returns False when the prerequisites check
\* fails; otherwise the five tests run in fixed order and append exactly one
\* result each, the response-formatting result passes exactly when at least
\* three of the four results before it passed, run returns True exactly when
\* all five results passed, and main exits with 0 exactly when run returned
\* True.
C20_ValidatorRun ==
    LET n == Len(results)
        PassedAmong(k) == Cardinality({i \in 1..k : results[i].passed})
        prereq_ok == /\ ValueOf(prereq).env_file_exists
                     /\ \A i \in 1..Len(required_files) :
                            required_files[i] \in ValueOf(prereq).files
    IN  /\ ~prereq_ok =>
             /\ results = <<>>
             /\ pc # "check_prerequisites" => run_returned = Some(FALSE)
        /\ n <= Len(TestOrder)
        /\ \A i \in 1..n : results[i].test_name = TestOrder[i]
        /\ \A k \in 1..Len(TestOrder) :
             pc = TestOrder_pc(k) => n = k - 1
        /\ (prereq_ok /\ pc \in {"summary", "returned", "exited"}) => n = Len(TestOrder)
        /\ n = Len(TestOrder) => (results[n].passed <=> PassedAmong(n - 1) >= 3)
        /\ ~IsNone(run_returned) =>
             (ValueOf(run_returned) <=>
                (n = Len(TestOrder) /\ \A i \in 1..n : results[i].passed))
        /\ ~IsNone(exit_status) =>
             /\ ~IsNone(run_returned)
             /\ exit_status = Some(0) <=> ValueOf(run_returned)
             /\ exit_status = Some(1) <=> ~ValueOf(run_returned)

\* exactly three of the first four tests passed: the formatting test passed,
\* run returned False and main exited with 1
C20_Witness ==
    /\ pc = "exited"
    /\ Len(results) = Len(TestOrder)
    /\ Cardinality({i \in 1..4 : results[i].passed}) = 3
    /\ results[5].passed
    /\ run_returned = Some(FALSE)
    /\ exit_status = Some(1)

====
